---- MODULE Spec2Model ----
(***************************************************************************)
(* Model of kanby's asynchronous save manager (src/kanby/async_save.py)    *)
(* and of the loading and saving of the data file (src/kanby/main.py).     *)
(*                                                                         *)
(* Spec is the save manager, LoadSpec is load_data and save_data, AppSpec  *)
(* is the running program: cli_main, main and manage_projects_modal, one   *)
(* step for each key the user presses; SessionSpec is a longer run of the  *)
(* program from one data file.  DrawSpec applies draw_board to boards and  *)
(* terminal heights, ModuleSpec is the module-level functions of           *)
(* async_save.py over the managers they create.                            *)
(*                                                                         *)
(* Threads: the foreground caller (thread 0) and the background worker     *)
(* threads created by AsyncSaveManager.start (threads 1..MaxCalls).  Every *)
(* access to a field of the manager, to the queue or to the file system is *)
(* one step of the thread that performs it.                                *)
(***************************************************************************)
EXTENDS Naturals, Integers, Sequences, FiniteSets

\* Number of calls (API calls and workspace mutations) the caller makes.
MaxCalls == 3
\* the number of keys getch delivers in one run of main.py, and the further
\* keys of a longer run
MaxKeys == 3
MoreKeys == 1

Caller == 0
Workers == 1 .. MaxCalls
Threads == {Caller} \cup Workers
None == 0

Priorities == {"Mid", "High"}
\* A callback is absent, returns normally, or raises an exception.
CallbackKinds == {"none", "ok", "raises"}
\* The (success_callback, error_callback) pairs the caller registers.
CallbackPairs == {<<"ok", "ok">>, <<"ok", "raises">>, <<"raises", "ok">>}
\* The (callback, show_feedback) pairs the caller passes to queue_save.
RequestKinds == {<<"none", FALSE>>, <<"ok", TRUE>>, <<"raises", FALSE>>}

\* ---------------------------------------------------------------- files
Absent == [kind |-> "absent", doc |-> <<>>]
Empty == [kind |-> "empty", doc |-> <<>>]
Torn == [kind |-> "torn", doc |-> <<>>]
Json(d) == [kind |-> "json", doc |-> d]

\* ----------------------------------------------------------- JSON values
\* A value json.load returns: every node is a record of one shape.  `str`
\* is the text of a string or number, or the key of a dict entry; `items`
\* holds the elements of a list, the entries of a dict in document order,
\* or the one value of an entry.
Node(k, s, it) == [kind |-> k, str |-> s, items |-> it]
JNull == Node("null", "", <<>>)
Num(s) == Node("num", s, <<>>)
Str(s) == Node("str", s, <<>>)
List(it) == Node("list", "", it)
Dict(entries) == Node("dict", "", entries)
Entry(k, v) == Node("entry", k, <<v>>)

\* the exception that leaves load_data
Raised == Node("raised", "", <<>>)
\* no workspace yet
NoWorkspace == Node("none", "", <<>>)

\* The content of the data file: absent, or bytes that are no UTF-8 text,
\* no JSON document (the empty file included), or the JSON document `v`.
NoFile == [kind |-> "absent", value |-> JNull]
Undecodable == [kind |-> "undecodable", value |-> JNull]
NotJson == [kind |-> "notjson", value |-> JNull]
Document(v) == [kind |-> "json", value |-> v]

VARIABLES
    is_running,        \* self.is_running
    save_thread,       \* self.save_thread: a thread id, or None
    save_queue,        \* self.save_queue: sequence of SaveRequest
    save_in_progress,  \* self.save_in_progress
    save_counter,      \* self.save_counter
    last_save_time,    \* self.last_save_time, on the logical clock Len(log)
    failed_saves,      \* self.failed_saves
    success_callback,  \* self.success_callback
    error_callback,    \* self.error_callback
    fs,                \* the files data_file, data_file.tmp, data_file.bak
    live,              \* the caller's workspace dict: the object "P" maps to
    heap,              \* the nested objects: object id -> tasks of its column
    pc,                \* position of every thread
    req,               \* the SaveRequest (or save_now argument) a thread works on
    wr,                \* locals of a thread inside _save_data_to_file
    calls,             \* number of calls the caller has made
    enqueued,          \* number of requests queue_save has enqueued
    last_enqueued,     \* the workspace as it was at the last queue_save
    log,               \* begin/end events of the attempts for queued requests
    data_file,         \* main.py: the content of the file DATA_FILE
    all_projects_data, \* main.py: the workspace load_data returned
    saved,             \* main.py: the workspace last passed to save_data
    \* ---- main.py: cli_main, main and manage_projects_modal
    app_pc,            \* where the program is: start, board, move, modal, exited
    exit_status,       \* the exit status of cli_main, once exited
    current_project_name,    \* main: current_project_name
    current_column_idx,      \* main: current_column_idx
    current_task_idx_in_col, \* main: current_task_idx_in_col
    original_col_idx,  \* main, move mode: original_col_idx
    original_task_idx, \* main, move mode: original_task_idx
    moving_task,       \* main, move mode: task
    project_names,     \* manage_projects_modal: project_names
    selected_idx,      \* manage_projects_modal: selected_idx
    modal_current,     \* manage_projects_modal: its current_project_name
    key_count,         \* number of keys read by getch so far (see MoveKeyRead)
    key,               \* the key getch returned last, or SIGINT
    typed,             \* what the get_input calls of the last step returned
    saving,            \* the outcomes of the save_data calls of the last step
    key_limit,         \* the number of keys the run reads at most
    \* ---- main.py: draw_board
    height,            \* stdscr.getmaxyx()[0] at the last draw_board
    screen,            \* what the last draw_board put on the screen
    \* ---- async_save.py: the module-level functions
    _save_manager,     \* the global _save_manager: a manager, or None
    managers,          \* the AsyncSaveManager objects created so far
    disk,              \* file name -> the workspace last written to it
    result             \* the last module-level call and what it returned

vars == <<is_running, save_thread, save_queue, save_in_progress, save_counter, last_save_time,
          failed_saves, success_callback, error_callback, fs, live, heap, pc,
          req, wr, calls, enqueued, last_enqueued, log, data_file,
          all_projects_data, saved, app_pc, exit_status,
          current_project_name, current_column_idx, current_task_idx_in_col,
          original_col_idx, original_task_idx, moving_task, project_names,
          selected_idx, modal_current, key_count, key, typed, saving, key_limit,
          height, screen, _save_manager, managers, disk, result>>

mgr == <<is_running, save_thread, save_in_progress, save_counter, last_save_time, failed_saves,
         success_callback, error_callback>>
ws == <<live, heap>>
caller_hist == <<calls, enqueued, last_enqueued>>
\* locals of main, of its move mode and of manage_projects_modal
cursor == <<current_column_idx, current_task_idx_in_col>>
move == <<original_col_idx, original_task_idx, moving_task>>
modal == <<project_names, selected_idx, modal_current>>
ui == <<app_pc, exit_status, current_project_name, cursor, move, modal,
        key_count, key, typed, saving>>
\* what draw_board shows, and the state behind the module-level functions
display == <<height, screen>>
api == <<_save_manager, managers, disk, result>>
rest == <<display, api, key_limit>>
app == <<data_file, all_projects_data, saved, ui, rest>>

Objects == 1 .. (MaxCalls + 1)

NoReq == [data |-> None, callback |-> "none", show_feedback |-> FALSE,
          seq |-> 0, at_enqueue |-> Absent]
NoWr == [ctx |-> "none", fd |-> "closed", pre |-> Absent, dumped |-> Absent,
         exc |-> FALSE, written |-> FALSE, told |-> <<>>]

\* json.dump of a top-level dict: the nested objects are read when it runs.
Serialize(data) == Json(heap[data])

\* SaveRequest.__init__: data.copy() copies the top-level mapping only; the
\* copy holds the same nested object.
SnapshotCopy(data) == data

is_alive(t) == t # None /\ pc[t] \notin {"none", "exited", "crashed"}

ReturnPcs == {"idle", "stop_ret", "sn_true", "sn_false", "sn_raised"}

WritePcs == {"open", "dump", "exists", "bakexists", "rmbak", "rotate",
             "rename", "cleanup"}
ProcessPcs == WritePcs \cup {"proc", "ok_post", "err_post", "finally"}

\* The state after AsyncSaveManager.__init__ (lines 18-32): the first worker
\* is started.  The caller holds a workspace with one task; the data file
\* and its backup are absent or hold an earlier, empty workspace.
ManagerInit ==
    /\ is_running = TRUE
    /\ save_thread = 1
    /\ save_queue = <<>>
    /\ save_in_progress = FALSE
    /\ save_counter = 0
    /\ last_save_time = 0
    /\ failed_saves = 0
    /\ success_callback = "none"
    /\ error_callback = "none"
    /\ live = 1
    /\ heap = [o \in Objects |-> IF o = 1 THEN <<"Mid">> ELSE <<>>]
    /\ fs \in {[target |-> Absent, tmp |-> Absent, bak |-> Absent],
               [target |-> Json(<<>>), tmp |-> Absent, bak |-> Absent],
               [target |-> Json(<<>>), tmp |-> Absent, bak |-> Json(<<>>)]}
    /\ pc = [t \in Threads |-> IF t = Caller THEN "idle"
                               ELSE IF t = 1 THEN "loop" ELSE "none"]
    /\ req = [t \in Threads |-> NoReq]
    /\ wr = [t \in Threads |-> NoWr]
    /\ calls = 0
    /\ enqueued = 0
    /\ last_enqueued = Absent
    /\ log = <<>>

\* draw_board has not run, init_async_save has not been called
NotDrawn ==
    /\ height = 0
    /\ screen = <<>>
NotInitialized ==
    /\ _save_manager = None
    /\ managers = <<>>
    /\ disk = <<>>
    /\ result = <<>>

\* cli_main has not been started
NotStarted ==
    /\ NotDrawn
    /\ NotInitialized
    /\ app_pc = "start"
    /\ exit_status = 0
    /\ current_project_name = ""
    /\ current_column_idx = 0
    /\ current_task_idx_in_col = 0
    /\ original_col_idx = 0
    /\ original_task_idx = 0
    /\ moving_task = JNull
    /\ project_names = <<>>
    /\ selected_idx = 0
    /\ modal_current = ""
    /\ key_count = 0
    /\ key = ""
    /\ typed = <<>>
    /\ saving = <<>>

\* main.py does not run while the save manager is exercised.
Init ==
    /\ ManagerInit
    /\ data_file = NoFile
    /\ all_projects_data = NoWorkspace
    /\ saved = NoWorkspace
    /\ NotStarted
    /\ key_limit = MaxKeys


\* ------------------------------------------------- _save_data_to_file
\* An open file follows its inode: a rename moves it, a rename onto it or
\* a removal unlinks it.
FdAfterRename(f, src, dst) ==
    IF f = src THEN dst ELSE IF f = dst THEN "unlinked" ELSE f
FdAfterRemove(f, path) == IF f = path THEN "unlinked" ELSE f

\* Where _save_data_to_file returns to: _process_save_request or save_now.
\* save_now (lines 65-69) returns True, or calls error_callback and returns
\* False unless the callback raises.
Raises(cb) == cb = "raises"
AfterReturnTrue(t) == IF wr[t].ctx = "save_now" THEN "sn_true" ELSE "ok_post"
AfterRaise(t) ==
    IF wr[t].ctx # "save_now" THEN "err_post"
    ELSE IF Raises(error_callback) THEN "sn_raised" ELSE "sn_false"

Goto(t, p) == pc' = [pc EXCEPT ![t] = p]

RaiseInWrite(t) ==
    /\ Goto(t, "cleanup")
    /\ wr' = [wr EXCEPT ![t].fd = "closed"]
    /\ UNCHANGED fs

\* an I/O error (disk full, permission denied, ...) in the current call
Fault(t) == RaiseInWrite(t)

\* line 137: open(temp_filename, 'w') creates or truncates the temp file
OpenTemp(t) ==
    /\ pc[t] = "open"
    /\ \/ /\ fs' = [fs EXCEPT !.tmp = Empty]
          /\ wr' = [wr EXCEPT ![t].fd = "tmp"]
          /\ Goto(t, "dump")
       \/ Fault(t)
    /\ UNCHANGED <<app, mgr, save_queue, ws, req, caller_hist, log>>

\* What the file holds after `v` is written from offset 0 over `old`.
Written(old, v) == IF old \in {Empty, v} THEN {v} ELSE {v, Torn}

\* lines 138-140: json.dump, flush, fsync, and the close at the end of `with`
DumpTemp(t) ==
    /\ pc[t] = "dump"
    /\ LET f == wr[t].fd
           v == Serialize(req[t].data)
       IN \/ /\ IF f = "unlinked"
                THEN fs' = fs
                ELSE \E c \in Written(fs[f], v) : fs' = [fs EXCEPT ![f] = c]
             /\ wr' = [wr EXCEPT ![t].fd = "closed", ![t].dumped = v]
             /\ Goto(t, "exists")
          \/ /\ fs' = IF f = "unlinked" THEN fs ELSE [fs EXCEPT ![f] = Torn]
             /\ wr' = [wr EXCEPT ![t].fd = "closed"]
             /\ Goto(t, "cleanup")
    /\ UNCHANGED <<app, mgr, save_queue, ws, req, caller_hist, log>>

\* line 143: os.path.exists(filename)
TargetExists(t) ==
    /\ pc[t] = "exists"
    /\ Goto(t, IF fs.target # Absent THEN "bakexists" ELSE "rename")
    /\ UNCHANGED <<app, mgr, save_queue, ws, req, caller_hist, log, fs, wr>>

\* line 145: os.path.exists(backup_filename)
BackupExists(t) ==
    /\ pc[t] = "bakexists"
    /\ Goto(t, IF fs.bak # Absent THEN "rmbak" ELSE "rotate")
    /\ UNCHANGED <<app, mgr, save_queue, ws, req, caller_hist, log, fs, wr>>

\* line 146: os.remove(backup_filename)
RemoveBackup(t) ==
    /\ pc[t] = "rmbak"
    /\ \/ /\ fs.bak # Absent
          /\ fs' = [fs EXCEPT !.bak = Absent]
          /\ wr' = [u \in Threads |->
                      [wr[u] EXCEPT !.fd = FdAfterRemove(@, "bak")]]
          /\ Goto(t, "rotate")
       \/ /\ fs.bak = Absent
          /\ RaiseInWrite(t)
       \/ Fault(t)
    /\ UNCHANGED <<app, mgr, save_queue, ws, req, caller_hist, log>>

\* line 147: os.rename(filename, backup_filename)
RotateBackup(t) ==
    /\ pc[t] = "rotate"
    /\ \/ /\ fs.target # Absent
          /\ fs' = [fs EXCEPT !.bak = fs.target, !.target = Absent]
          /\ wr' = [u \in Threads |->
                      [wr[u] EXCEPT !.fd = FdAfterRename(@, "target", "bak")]]
          /\ Goto(t, "rename")
       \/ /\ fs.target = Absent
          /\ RaiseInWrite(t)
       \/ Fault(t)
    /\ UNCHANGED <<app, mgr, save_queue, ws, req, caller_hist, log>>

\* lines 149-151: os.rename(temp_filename, filename); return True
RenameTemp(t) ==
    /\ pc[t] = "rename"
    /\ \/ /\ fs.tmp # Absent
          /\ fs' = [fs EXCEPT !.target = fs.tmp, !.tmp = Absent]
          /\ wr' = [u \in Threads |->
                      [wr[u] EXCEPT !.fd = FdAfterRename(@, "tmp", "target"),
                                    !.written = @ \/ u = t]]
          /\ Goto(t, AfterReturnTrue(t))
       \/ /\ fs.tmp = Absent
          /\ RaiseInWrite(t)
       \/ Fault(t)
    /\ UNCHANGED <<app, mgr, save_queue, ws, req, caller_hist, log>>

\* lines 153-160: remove the temp file if it exists (errors ignored); raise
CleanupTemp(t) ==
    /\ pc[t] = "cleanup"
    /\ \/ /\ fs' = [fs EXCEPT !.tmp = Absent]
          /\ wr' = [u \in Threads |->
                      [wr[u] EXCEPT !.fd = FdAfterRemove(@, "tmp")]]
       \/ /\ fs.tmp # Absent
          /\ UNCHANGED <<fs, wr>>
    /\ Goto(t, AfterRaise(t))
    /\ UNCHANGED <<app, mgr, save_queue, ws, req, caller_hist, log>>

SaveDataToFile(t) ==
    \/ OpenTemp(t)
    \/ DumpTemp(t)
    \/ TargetExists(t)
    \/ BackupExists(t)
    \/ RemoveBackup(t)
    \/ RotateBackup(t)
    \/ RenameTemp(t)
    \/ CleanupTemp(t)


\* ---------------------------------------------- _process_save_request
\* line 99, and the call at line 102
BeginProcess(t) ==
    /\ pc[t] = "proc"
    /\ save_in_progress' = TRUE
    /\ wr' = [wr EXCEPT ![t].pre = fs.target]
    /\ log' = Append(log, <<"begin", req[t].seq>>)
    /\ Goto(t, "open")
    /\ UNCHANGED <<app, is_running, save_thread, save_counter, last_save_time, failed_saves,
                   success_callback, error_callback, save_queue, ws, req,
                   caller_hist, fs>>

\* The callbacks lines 108-112 call, in order, up to the first that raises.
SuccessCalls(t) ==
    LET fb == IF req[t].show_feedback /\ success_callback # "none"
              THEN <<"success_callback">> ELSE <<>>
        cb == IF req[t].callback # "none" THEN <<"callback(True)">> ELSE <<>>
    IN IF fb # <<>> /\ Raises(success_callback) THEN fb ELSE fb \o cb

\* The callbacks lines 123-127 call, in order, up to the first that raises.
FailureCalls(t) ==
    LET ec == IF error_callback # "none" THEN <<"error_callback">> ELSE <<>>
        cb == IF req[t].callback # "none" THEN <<"callback(False)">> ELSE <<>>
    IN IF Raises(error_callback) THEN ec ELSE ec \o cb

\* lines 104-112: the write returned True
ProcessSuccess(t) ==
    /\ pc[t] = "ok_post"
    /\ last_save_time' = Len(log)
    /\ save_counter' = save_counter + 1
    /\ wr' = [wr EXCEPT ![t].told = @ \o SuccessCalls(t)]
    /\ IF \/ req[t].show_feedback /\ Raises(success_callback)
          \/ Raises(req[t].callback)
       THEN Goto(t, "err_post")
       ELSE Goto(t, "finally")
    /\ UNCHANGED <<app, is_running, save_thread, save_in_progress, failed_saves,
                   success_callback, error_callback, save_queue, ws, req,
                   caller_hist, log, fs>>

\* lines 121-127: an exception reached the except clause
ProcessFailure(t) ==
    /\ pc[t] = "err_post"
    /\ failed_saves' = failed_saves + 1
    /\ wr' = [wr EXCEPT ![t].exc = Raises(error_callback)
                                    \/ Raises(req[t].callback),
                        ![t].told = @ \o FailureCalls(t)]
    /\ Goto(t, "finally")
    /\ UNCHANGED <<app, is_running, save_thread, save_in_progress,
                   save_counter, last_save_time,
                   success_callback, error_callback, save_queue, ws, req,
                   caller_hist, log, fs>>

\* lines 128-129, then back in the caller of _process_save_request:
\* _process_remaining_saves (task_done, or `continue` at line 95), or
\* _save_worker (task_done, or lines 81-83: error_callback; an exception
\* raised by that callback leaves the loop and ends the thread)
EndProcess(t) ==
    /\ pc[t] = "finally"
    /\ save_in_progress' = FALSE
    /\ log' = Append(log, <<"end", req[t].seq>>)
    /\ Goto(t, IF wr[t].ctx = "drain" THEN "drain_loop"
               ELSE IF wr[t].exc /\ Raises(error_callback) THEN "crashed"
               ELSE "loop")
    /\ req' = [req EXCEPT ![t] = NoReq]
    /\ wr' = [wr EXCEPT ![t] = NoWr]
    /\ UNCHANGED <<app, is_running, save_thread, save_counter, last_save_time, failed_saves,
                   success_callback, error_callback, save_queue, ws,
                   caller_hist, fs>>

ProcessSaveRequest(t) ==
    \/ BeginProcess(t)
    \/ ProcessSuccess(t)
    \/ ProcessFailure(t)
    \/ EndProcess(t)

\* ---------------------------------------------------------- _save_worker
\* a loop test that does not look at is_running
WorkerLoopForever(t) ==
    /\ pc[t] = "loop"
    /\ Goto(t, "get")
    /\ UNCHANGED <<app, mgr, save_queue, ws, req, wr, caller_hist, log, fs>>

\* line 73: while self.is_running
WorkerLoop(t) ==
    /\ pc[t] = "loop"
    /\ Goto(t, IF is_running THEN "get" ELSE "exited")
    /\ UNCHANGED <<app, mgr, save_queue, ws, req, wr, caller_hist, log, fs>>

\* line 76: save_queue.get(timeout=0.1); Empty leads back to the loop test
WorkerGet(t) ==
    /\ pc[t] = "get"
    /\ IF save_queue # <<>>
       THEN /\ req' = [req EXCEPT ![t] = Head(save_queue)]
            /\ save_queue' = Tail(save_queue)
            /\ wr' = [wr EXCEPT ![t].ctx = "worker"]
            /\ Goto(t, "proc")
       ELSE /\ Goto(t, "loop")
            /\ UNCHANGED <<save_queue, req, wr>>
    /\ UNCHANGED <<app, mgr, ws, caller_hist, log, fs>>

SaveWorker(t) ==
    \/ WorkerLoop(t)
    \/ WorkerGet(t)
    \/ ProcessSaveRequest(t)
    \/ SaveDataToFile(t)


\* ------------------------------------------------------------ the caller
\* The caller is between two calls: pc says how the last blocking call
\* (stop, save_now) returned.
CallerIdle == pc[Caller] \in ReturnPcs /\ calls < MaxCalls

Called ==
    /\ calls' = calls + 1
    /\ req' = [req EXCEPT ![Caller] = NoReq]
    /\ wr' = [wr EXCEPT ![Caller] = NoWr]

NewThread == CHOOSE t \in Workers :
                 /\ pc[t] = "none"
                 /\ \A u \in Workers : pc[u] = "none" => t <= u

\* lines 34-39: start(), returning to the caller
start ==
    IF ~is_running
    THEN /\ is_running' = TRUE
         /\ save_thread' = NewThread
         /\ pc' = [pc EXCEPT ![Caller] = "idle", ![NewThread] = "loop"]
    ELSE /\ Goto(Caller, "idle")
         /\ UNCHANGED <<is_running, save_thread>>

Start ==
    /\ CallerIdle
    /\ start
    /\ Called
    /\ UNCHANGED <<app, save_in_progress, save_counter, last_save_time, failed_saves,
                   success_callback, error_callback, save_queue, ws,
                   enqueued, last_enqueued, log, fs>>

\* lines 49-52: set_callbacks()
SetCallbacks(s, e) ==
    /\ CallerIdle
    /\ success_callback' = s
    /\ error_callback' = e
    /\ Goto(Caller, "idle")
    /\ Called
    /\ UNCHANGED <<app, is_running, save_thread, save_in_progress, save_counter, last_save_time,
                   failed_saves, save_queue, ws, enqueued, last_enqueued,
                   log, fs>>

\* lines 54-60: queue_save(), with SaveRequest.__init__ (lines 9-14)
QueueSave(cb, fb) ==
    /\ CallerIdle
    /\ start
    /\ save_queue' = Append(save_queue,
                            [data |-> SnapshotCopy(live), callback |-> cb,
                             show_feedback |-> fb, seq |-> enqueued + 1,
                             at_enqueue |-> Serialize(live)])
    /\ Called
    /\ enqueued' = enqueued + 1
    /\ last_enqueued' = Serialize(live)
    /\ UNCHANGED <<app, save_in_progress, save_counter, last_save_time, failed_saves,
                   success_callback, error_callback, ws, log, fs>>

\* lines 62-65: save_now() calls _save_data_to_file on the calling thread
SaveNow ==
    /\ CallerIdle
    /\ calls' = calls + 1
    /\ req' = [req EXCEPT ![Caller] = [NoReq EXCEPT !.data = live]]
    /\ wr' = [wr EXCEPT ![Caller] = [NoWr EXCEPT !.ctx = "save_now",
                                                 !.pre = fs.target]]
    /\ Goto(Caller, "open")
    /\ UNCHANGED <<app, mgr, save_queue, ws, enqueued, last_enqueued, log, fs>>

\* line 43: stop() clears is_running
Stop ==
    /\ CallerIdle
    /\ is_running' = FALSE
    /\ Goto(Caller, "stop_check")
    /\ Called
    /\ UNCHANGED <<app, save_thread, save_in_progress, save_counter, last_save_time, failed_saves,
                   success_callback, error_callback, save_queue, ws,
                   enqueued, last_enqueued, log, fs>>

\* line 44: if self.save_thread and self.save_thread.is_alive()
StopCheckAlive ==
    /\ pc[Caller] = "stop_check"
    /\ Goto(Caller, IF is_alive(save_thread) THEN "drain_loop" ELSE "stop_ret")
    /\ UNCHANGED <<app, mgr, save_queue, ws, req, wr, caller_hist, log, fs>>

\* line 87: while not self.save_queue.empty()
DrainLoop ==
    /\ pc[Caller] = "drain_loop"
    /\ Goto(Caller, IF save_queue # <<>> THEN "drain_get" ELSE "join")
    /\ UNCHANGED <<app, mgr, save_queue, ws, req, wr, caller_hist, log, fs>>

\* lines 89-93: get_nowait(); Empty breaks out of the loop
DrainGet ==
    /\ pc[Caller] = "drain_get"
    /\ IF save_queue # <<>>
       THEN /\ req' = [req EXCEPT ![Caller] = Head(save_queue)]
            /\ save_queue' = Tail(save_queue)
            /\ wr' = [wr EXCEPT ![Caller].ctx = "drain"]
            /\ Goto(Caller, "proc")
       ELSE /\ Goto(Caller, "join")
            /\ UNCHANGED <<save_queue, req, wr>>
    /\ UNCHANGED <<app, mgr, ws, caller_hist, log, fs>>

\* line 47: save_thread.join(timeout=2.0) returns when the thread has
\* ended, or after 2 s: the worker polls every 0.1 s, so the wait can only
\* run out while the worker is inside _process_save_request
Join ==
    /\ pc[Caller] = "join"
    /\ \/ ~is_alive(save_thread)
       \/ pc[save_thread] \in ProcessPcs
    /\ Goto(Caller, "stop_ret")
    /\ UNCHANGED <<app, mgr, save_queue, ws, req, wr, caller_hist, log, fs>>

\* ---- the caller's changes to its live workspace between calls
Mutated ==
    /\ Goto(Caller, "idle")
    /\ Called
    /\ UNCHANGED <<app, mgr, save_queue, enqueued, last_enqueued, log, fs>>

\* all_projects_data[name] = {col: [] for col in DEFAULT_COLUMNS}: the key
\* gets a new project object
ReplaceProject ==
    /\ CallerIdle
    /\ live' = calls + 2
    /\ heap' = [heap EXCEPT ![calls + 2] = <<>>]
    /\ Mutated

\* tasks_data[current_column].append(new_task)
AppendTask(p) ==
    /\ CallerIdle
    /\ heap' = [heap EXCEPT ![live] = Append(@, p)]
    /\ live' = live
    /\ Mutated

\* current_col_tasks.pop(current_task_idx_in_col)
RemoveTask(i) ==
    /\ CallerIdle
    /\ i \in 1 .. Len(heap[live])
    /\ heap' = [heap EXCEPT ![live] =
                   SubSeq(@, 1, i - 1) \o SubSeq(@, i + 1, Len(@))]
    /\ live' = live
    /\ Mutated

\* task["priority"] = ...
EditTask(i, p) ==
    /\ CallerIdle
    /\ i \in 1 .. Len(heap[live])
    /\ heap[live][i] # p
    /\ heap' = [heap EXCEPT ![live][i] = p]
    /\ live' = live
    /\ Mutated

CallerNext ==
    \/ Start
    \/ \E c \in CallbackPairs : SetCallbacks(c[1], c[2])
    \/ \E k \in RequestKinds : QueueSave(k[1], k[2])
    \/ SaveNow
    \/ Stop
    \/ StopCheckAlive
    \/ DrainLoop
    \/ DrainGet
    \/ Join
    \/ ReplaceProject
    \/ \E p \in Priorities : AppendTask(p)
    \/ \E i \in 1 .. MaxCalls + 1 : RemoveTask(i)
    \/ \E i \in 1 .. MaxCalls + 1, p \in Priorities : EditTask(i, p)
    \/ ProcessSaveRequest(Caller)
    \/ SaveDataToFile(Caller)

WorkerNext == \E t \in Workers : SaveWorker(t)

Next == CallerNext \/ WorkerNext

Spec == Init /\ [][Next]_vars


\* Fair scheduling: every worker thread keeps taking steps, and a call the
\* caller has begun (stop, save_now) runs on.
CallerRunning ==
    \/ StopCheckAlive
    \/ DrainLoop
    \/ DrainGet
    \/ Join
    \/ ProcessSaveRequest(Caller)
    \/ SaveDataToFile(Caller)

FairSpec ==
    /\ Spec
    /\ \A t \in Workers : WF_vars(SaveWorker(t))
    /\ WF_vars(CallerRunning)

\* ------------------------------------------------------------ properties
Queued(t) == wr[t].ctx \in {"worker", "drain"}
Writers == {t \in Threads : pc[t] \in WritePcs}
Range(f) == {f[i] : i \in DOMAIN f}

\* C1: the content a queued request writes is the workspace as it was when
\* queue_save was called, whatever the caller changed afterwards.
C1_SnapshotIsolation ==
    \A t \in Threads :
        (Queued(t) /\ wr[t].dumped # Absent) => wr[t].dumped = req[t].at_enqueue

\* C2: at most one thread at a time is inside _save_data_to_file.
C2_SingleWriter == Cardinality(Writers) <= 1

\* C3: while a single writer is inside _save_data_to_file and the target
\* existed before the call, the target holds the previous content or the
\* new content.
C3_CrashSafeTarget ==
    \A t \in Threads :
        (Writers = {t} /\ wr[t].pre # Absent)
            => \/ fs.target = wr[t].pre
               \/ wr[t].dumped # Absent /\ fs.target = wr[t].dumped

\* C4: when _save_data_to_file raises, the target holds what it held when
\* the call began.
C4_FailedWriteKeepsTarget ==
    [][\A t \in Threads :
          (CleanupTemp(t) /\ Writers = {t}) => fs'.target = wr[t].pre]_vars

\* C5: after n >= 1 calls of queue_save followed by stop(), with no failed
\* attempt, the target holds the last snapshot enqueued.
C5_LastEnqueuedWins ==
    (/\ pc[Caller] = "stop_ret"
     /\ enqueued >= 1
     /\ calls = enqueued + 1
     /\ failed_saves = 0)
        => fs.target = last_enqueued

\* C6: the attempts for queued requests begin in enqueue order and each one
\* ends before the next begins.
C6_StrictFifo ==
    \A i \in 1 .. Len(log) :
        log[i] = <<IF i % 2 = 1 THEN "begin" ELSE "end", (i + 1) \div 2>>

\* C7: under fair scheduling every enqueued request is eventually attempted.
Attempted(n) == <<"end", n>> \in Range(log)
C7_EventuallyAttempted ==
    \A n \in 1 .. MaxCalls : [](enqueued >= n => <>Attempted(n))

\* C8: when stop() returns, the queue is empty and no request is in flight.
C8_DrainComplete ==
    pc[Caller] = "stop_ret"
        => /\ save_queue = <<>>
           /\ \A t \in Workers : pc[t] \notin ProcessPcs

\* C9: no worker thread is ended by an exception.
C9_WorkerSurvivesFailure == \A t \in Workers : pc[t] # "crashed"

\* C10: a queue_save called while the worker thread is not alive leaves a
\* live worker thread behind.
C10_DeadWorkerRestarted ==
    [][((\E k \in RequestKinds : QueueSave(k[1], k[2]))
            /\ ~is_alive(save_thread))
          => is_alive(save_thread)']_vars

\* C11: a request whose write succeeded adds 1 to save_counter only, sets
\* last_save_time and has its callback called with True, success_callback
\* being called only with show_feedback; a request counts as failed only if
\* its write failed, and then adds 1 to failed_saves only and has its
\* callback called with False and error_callback called.
C11_OutcomeReporting ==
    [][\A t \in Threads :
          /\ ProcessSuccess(t)
                => /\ save_counter' = save_counter + 1
                   /\ last_save_time' = Len(log)
                   /\ failed_saves' = failed_saves
                   /\ req[t].callback # "none"
                         => "callback(True)" \in Range(wr'[t].told)
                   /\ "success_callback" \in Range(wr'[t].told)
                         => req[t].show_feedback
          /\ ProcessFailure(t)
                => /\ ~wr[t].written
                   /\ failed_saves' = failed_saves + 1
                   /\ save_counter' = save_counter
                   /\ req[t].callback # "none"
                         => "callback(False)" \in Range(wr'[t].told)
                   /\ error_callback # "none"
                         => "error_callback" \in Range(wr'[t].told)]_vars

\* C12: save_now writes on the calling thread, leaves the queue alone,
\* returns True exactly when the write completed and never raises.
C12_SaveNowResult ==
    [][(wr[Caller].ctx = "save_now" /\ SaveDataToFile(Caller))
          => /\ save_queue' = save_queue
             /\ pc'[Caller] = "sn_true" <=> wr'[Caller].written
             /\ pc'[Caller] # "sn_raised"]_vars

\* C13: when a thread that is the only one inside _save_data_to_file leaves
\* it, by return or by exception, the file <target>.tmp does not exist.
C13_NoLeftoverTemp ==
    [][\A t \in Threads :
          (SaveDataToFile(t) /\ Writers = {t} /\ pc'[t] \notin WritePcs)
              => fs'.tmp = Absent]_vars

\* C14: when a save of a target that existed at the start of the save
\* succeeds, <target>.bak holds what the target held when the save began
\* and the target holds the snapshot written.
C14_BackupRotation ==
    [][\A t \in Threads :
          (RenameTemp(t) /\ wr'[t].written /\ wr[t].pre # Absent)
              => /\ fs'.bak = wr[t].pre
                 /\ fs'.target = wr[t].dumped]_vars


\* ======================================================================
\* main.py: load_data and save_data
\* ======================================================================
DEFAULT_COLUMNS == <<"To Do", "In Progress", "Done">>
DEFAULT_PROJECT_NAME == "Default Project"
PRIORITIES == {"Low", "Mid", "High"}
DEFAULT_PRIORITY == "Mid"
\* generate_id(): str(uuid.uuid4())[:8], eight characters
GeneratedId == "########"

\* ---- Python's operations on the loaded values
\* `not v`
Falsy(v) ==
    \/ v.kind = "null"
    \/ v.kind = "num" /\ v.str = "0"
    \/ v.kind = "str" /\ v.str = ""
    \/ v.kind \in {"list", "dict"} /\ v.items = <<>>
IsDict(v) == v.kind = "dict"
IsList(v) == v.kind = "list"
\* list(d.keys())
Keys(d) == [i \in DOMAIN d.items |-> d.items[i].str]
\* k in d
Has(d, k) == \E i \in DOMAIN d.items : d.items[i].str = k
\* d.get(k, default)
Get(d, k, default) ==
    IF Has(d, k)
    THEN LET i == CHOOSE j \in DOMAIN d.items : d.items[j].str = k
         IN d.items[i].items[1]
    ELSE default
\* d[k] = v: an existing key keeps its place, a new key goes to the end
Set(d, k, v) ==
    IF Has(d, k)
    THEN Dict([i \in DOMAIN d.items |->
                  IF d.items[i].str = k THEN Entry(k, v) ELSE d.items[i]])
    ELSE Dict(Append(d.items, Entry(k, v)))
\* d after d.pop(k, default)
Without(d, k) == Dict(SelectSeq(d.items, LAMBDA e : e.str # k))
\* `for x in v`: the elements of a list, the keys of a dict, the characters
\* of a string (here: one string standing for them); anything else raises
Iterable(v) == v.kind \in {"list", "dict", "str"}
Iterate(v) ==
    IF IsList(v) THEN v.items
    ELSE IF IsDict(v) THEN [i \in DOMAIN v.items |-> Str(v.items[i].str)]
    ELSE IF v.str = "" THEN <<>> ELSE <<Str(v.str)>>

\* {col: [] for col in DEFAULT_COLUMNS}
EmptyProject ==
    Dict([c \in DOMAIN DEFAULT_COLUMNS |-> Entry(DEFAULT_COLUMNS[c], List(<<>>))])
\* {DEFAULT_PROJECT_NAME: {col: [] for col in DEFAULT_COLUMNS}}
DefaultWorkspace == Dict(<<Entry(DEFAULT_PROJECT_NAME, EmptyProject)>>)

\* ---- load_data (lines 179-239)
\* line 192: all(isinstance(val, dict) and DEFAULT_COLUMNS[0] in val
\*               for val in data.values() if val)
IsProjectFormat(data) ==
    \A i \in DOMAIN data.items :
        LET val == data.items[i].items[1]
        IN Falsy(val) \/ (IsDict(val) /\ Has(val, DEFAULT_COLUMNS[1]))

\* lines 195-203: the loop over the items of the old-format document, in
\* document order; `project` is migrated_data[DEFAULT_PROJECT_NAME] so far
RECURSIVE MigrateEntries(_, _)
MigrateEntries(entries, project) ==
    IF entries = <<>> \/ project = Raised THEN project
    ELSE LET col_name_old_format == Head(entries).str
             tasks_list == Head(entries).items[1]
             first == Get(project, DEFAULT_COLUMNS[1], JNull)
         IN MigrateEntries(Tail(entries),
                IF col_name_old_format \in Range(DEFAULT_COLUMNS)
                THEN Set(project, col_name_old_format, tasks_list)
                ELSE IF IsList(tasks_list)
                THEN IF IsList(first)
                     THEN Set(project, DEFAULT_COLUMNS[1],
                              List(first.items
                                       \o SelectSeq(tasks_list.items, IsDict)))
                     ELSE Raised
                ELSE project)

\* lines 193-204
Migrated(data) ==
    LET project == MigrateEntries(data.items, EmptyProject)
    IN IF project = Raised THEN Raised
       ELSE Dict(<<Entry(DEFAULT_PROJECT_NAME, project)>>)

\* lines 221-225
NormalizeTask(task) ==
    LET with_id == IF Has(task, "id") THEN task
                   ELSE Set(task, "id", Str(GeneratedId))
    IN IF Has(with_id, "priority") THEN with_id
       ELSE Set(with_id, "priority", Str(DEFAULT_PRIORITY))

\* lines 219-226: the tasks that are dicts, in order
NormalizeTasks(tasks) ==
    LET dicts == SelectSeq(tasks, IsDict)
    IN [i \in DOMAIN dicts |-> NormalizeTask(dicts[i])]

\* lines 214-226 for one project: project_content.get and the iteration
\* over a column raise for a value that is no dict, or not iterable
NormalizeProject(project_content) ==
    IF ~IsDict(project_content) THEN Raised
    ELSE LET tasks_in_col ==
                 [c \in DOMAIN DEFAULT_COLUMNS |->
                     Get(project_content, DEFAULT_COLUMNS[c], List(<<>>))]
         IN IF \E c \in DOMAIN DEFAULT_COLUMNS : ~Iterable(tasks_in_col[c])
            THEN Raised
            ELSE Dict([c \in DOMAIN DEFAULT_COLUMNS |->
                         Entry(DEFAULT_COLUMNS[c],
                               List(NormalizeTasks(Iterate(tasks_in_col[c]))))])

\* lines 207-226
Normalized(data) ==
    LET d == IF data.items = <<>>
             THEN Set(data, DEFAULT_PROJECT_NAME, Dict(<<>>)) ELSE data
        projects == [i \in DOMAIN d.items |->
                        Entry(d.items[i].str,
                              NormalizeProject(d.items[i].items[1]))]
    IN IF \E i \in DOMAIN projects : projects[i].items[1] = Raised
       THEN Raised
       ELSE Dict(projects)

\* lines 181-239.  Only json.JSONDecodeError is caught (line 235).  The
\* fallback of lines 232-233 is never taken: final_data has a project.
load_data(file) ==
    IF file.kind = "absent" THEN DefaultWorkspace
    ELSE IF file.kind = "undecodable" THEN Raised
    ELSE IF file.kind = "notjson" THEN DefaultWorkspace
    ELSE LET data == IF Falsy(file.value) THEN DefaultWorkspace
                     ELSE file.value
         IN IF ~IsDict(data) THEN Raised
            ELSE LET meta_data == Get(data, "_meta", Dict(<<>>))
                     projects == Without(data, "_meta")
                     migrated == IF IsProjectFormat(projects) THEN projects
                                 ELSE Migrated(projects)
                     final_data == IF migrated = Raised THEN Raised
                                   ELSE Normalized(migrated)
                 IN IF final_data = Raised THEN Raised
                    ELSE IF Falsy(meta_data) THEN final_data
                    ELSE Set(final_data, "_meta", meta_data)

\* lines 242-245: save_data writes json.dump(all_projects_data) to DATA_FILE
\* (a workspace has string keys and string, list and dict values only, which
\* json.load gives back as they were)
Dump(workspace) == Document(workspace)

\* ---- the documents and workspaces the checks draw from
FullTask ==
    Dict(<<Entry("id", Str("a1")), Entry("title", Str("write")),
           Entry("priority", Str("High"))>>)
OtherTask ==
    Dict(<<Entry("id", Str("c3")), Entry("title", Str("call")),
           Entry("priority", Str("Low"))>>)
BareTask == Dict(<<Entry("title", Str("read"))>>)
UntitledTask == Dict(<<Entry("id", Str("b2")), Entry("priority", Str("Low"))>>)
OddTask ==
    Dict(<<Entry("id", Str("")), Entry("title", Str("odd")),
           Entry("priority", Str("Urgent"))>>)

\* a key that is not in the document
Missing == Node("missing", "", <<>>)
\* the dict of the keys `keys` (in this order) whose value is not Missing
DictOf(keys, values) ==
    Dict(SelectSeq([i \in DOMAIN keys |-> Entry(keys[i], values[i])],
                   LAMBDA e : e.items[1] # Missing))

ColumnValues ==
    {List(<<>>), List(<<FullTask>>), List(<<BareTask, FullTask>>),
     List(<<OddTask>>), List(<<UntitledTask>>), List(<<Str("note"), FullTask>>),
     Num("5"), JNull, Str("abc")}
ProjectValues ==
    {DictOf(DEFAULT_COLUMNS, f) :
        f \in [DOMAIN DEFAULT_COLUMNS -> ColumnValues \cup {Missing}]}
    \cup {Dict(<<Entry("To Do", List(<<FullTask>>)),
                 Entry("Later", List(<<OtherTask>>))>>),
          JNull, Num("5"), List(<<>>)}
SecondProjectValues ==
    {Missing, EmptyProject, Dict(<<Entry("Done", List(<<OtherTask>>))>>)}
MetaValues ==
    {Missing, Dict(<<>>), Dict(<<Entry("last_project", Str("P"))>>), Num("5")}

\* documents in the project format: projects P and Q, and _meta
ProjectDocuments ==
    {Document(DictOf(<<"P", "Q", "_meta">>, <<p, q, m>>)) :
        p \in ProjectValues, q \in SecondProjectValues, m \in MetaValues}

\* documents in the old format: column names, in any order, map to lists
LegacyKeys == {"To Do", "In Progress", "Done", "Backlog"}
LegacyValues ==
    {List(<<>>), List(<<BareTask>>), List(<<Str("note"), FullTask>>), Num("5")}
LegacyMetaValues == {Missing, Dict(<<Entry("last_project", Str("P"))>>)}
LegacyKeyOrders ==
    {ks \in UNION {[1 .. n -> LegacyKeys] : n \in 1 .. 3} :
        \A i, j \in DOMAIN ks : i # j => ks[i] # ks[j]}
LegacyDocuments ==
    UNION {{Document(DictOf(Append(ks, "_meta"), Append(vs, m))) :
               vs \in [DOMAIN ks -> LegacyValues], m \in LegacyMetaValues} :
           ks \in LegacyKeyOrders}

\* a missing file, and files that hold no JSON object
OtherDocuments ==
    {NoFile, Undecodable, NotJson,
     Document(JNull), Document(Num("0")), Document(Num("5")),
     Document(Str("")), Document(Str("abc")),
     Document(List(<<>>)), Document(List(<<Num("5")>>)), Document(Dict(<<>>))}

Documents == ProjectDocuments \cup LegacyDocuments \cup OtherDocuments

\* valid workspaces: projects with the three columns, tasks with id, title
\* and priority, and an optional _meta entry with or without last_project
ValidColumns ==
    {List(<<>>), List(<<FullTask>>), List(<<FullTask, OtherTask>>),
     List(<<OtherTask, FullTask>>)}
ValidProjects ==
    {DictOf(DEFAULT_COLUMNS, <<c1, c2, List(<<>>)>>) :
        c1 \in ValidColumns, c2 \in {List(<<>>), List(<<OtherTask>>)}}
ValidMetaValues ==
    {Missing, Dict(<<>>), Dict(<<Entry("last_project", Str("P"))>>)}
ValidWorkspaces ==
    {DictOf(<<"P", "Q", "_meta">>, <<p, q, m>>) :
        p \in ValidProjects,
        q \in {Missing, EmptyProject,
                DictOf(DEFAULT_COLUMNS,
                       <<List(<<FullTask>>), List(<<>>), List(<<OtherTask>>)>>)},
        m \in ValidMetaValues}

\* ---- the program: load at start; save a workspace and start again
\* main(): all_projects_data = load_data()
LoadData ==
    /\ all_projects_data = NoWorkspace
    /\ all_projects_data' = load_data(data_file)
    /\ UNCHANGED <<rest, data_file, saved, ui, mgr, save_queue, ws, pc, req, wr,
                   caller_hist, log, fs>>

\* save_data(workspace), after which the program is started again
SaveData(workspace) ==
    /\ all_projects_data \notin {NoWorkspace, Raised}
    /\ saved = NoWorkspace
    /\ data_file' = Dump(workspace)
    /\ saved' = workspace
    /\ all_projects_data' = NoWorkspace
    /\ UNCHANGED <<rest, ui, mgr, save_queue, ws, pc, req, wr, caller_hist, log, fs>>

\* The program starts with any of the documents in its data file; the
\* save manager of async_save.py, which main.py does not use, stays idle.
LoadInit ==
    /\ ManagerInit
    /\ fs.target = Absent
    /\ data_file \in Documents
    /\ all_projects_data = NoWorkspace
    /\ saved = NoWorkspace
    /\ NotStarted
    /\ key_limit = MaxKeys

LoadNext ==
    \/ LoadData
    \/ \E workspace \in ValidWorkspaces : SaveData(workspace)

LoadSpec == LoadInit /\ [][LoadNext]_vars

\* ---- properties of load_data
\* load_data has returned a workspace
Loaded == IsDict(all_projects_data)
\* the entries of a workspace or document that are projects
ProjectEntries(w) == {e \in Range(w.items) : e.str # "_meta"}
\* the tasks in all columns of a project
TasksOf(project) ==
    UNION {Range(col.items[1].items) : col \in Range(project.items)}
AllTasks(w) == UNION {TasksOf(e.items[1]) : e \in ProjectEntries(w)}

\* C15: load_data returns a workspace and raises no exception, whatever the
\* data file holds.
C15_LoadNeverFails == all_projects_data # Raised

\* C16: in a workspace load_data returned every project has exactly the
\* three fixed columns, each a list, and every task has a non-empty id and
\* a priority that is Low, Mid or High.
C16_NormalizationComplete ==
    Loaded =>
        /\ \A e \in ProjectEntries(all_projects_data) :
              /\ Keys(e.items[1]) = DEFAULT_COLUMNS
              /\ \A col \in Range(e.items[1].items) : IsList(col.items[1])
        /\ \A task \in AllTasks(all_projects_data) :
              /\ ~Falsy(Get(task, "id", JNull))
              /\ Get(task, "priority", JNull) \in {Str(p) : p \in PRIORITIES}

\* C17: every task of a workspace load_data returned has the three fields
\* id, title and priority.
C17_TaskFieldsPresent ==
    Loaded =>
        \A task \in AllTasks(all_projects_data) :
            Has(task, "id") /\ Has(task, "title") /\ Has(task, "priority")

\* C18: load_data after save_data(W), for a valid workspace W, returns a
\* workspace with the same entries as W, _meta included.
C18_RoundTrip ==
    (saved # NoWorkspace /\ all_projects_data # NoWorkspace)
        => /\ Loaded
           /\ Range(all_projects_data.items) = Range(saved.items)

\* The first load of the program: load_data has run on the document the
\* data file held at the start.
FirstLoad == saved = NoWorkspace /\ all_projects_data # NoWorkspace
IsObject(file) == file.kind = "json" /\ IsDict(file.value)
Names(entries) == {e.str : e \in entries}

\* an old-format document: its keys (other than _meta) map to lists
IsLegacyDocument(file) ==
    /\ IsObject(file)
    /\ ProjectEntries(file.value) # {}
    /\ \A e \in ProjectEntries(file.value) : IsList(e.items[1])

RECURSIVE Concat(_)
Concat(lists) ==
    IF lists = <<>> THEN <<>> ELSE Head(lists) \o Concat(Tail(lists))

\* What C19 states for an old-format document: each fixed column holds the
\* list under its name, "To Do" followed by the dict-shaped tasks of the
\* lists under other names in document order; defaults applied.
LegacyExpected(doc) ==
    LET others == SelectSeq(doc.items,
                      LAMBDA e : e.str \notin Range(DEFAULT_COLUMNS)
                                                  \cup {"_meta"})
        extra == Concat([i \in DOMAIN others |->
                            SelectSeq(others[i].items[1].items, IsDict)])
        column(c) == Get(doc, DEFAULT_COLUMNS[c], List(<<>>)).items
                         \o (IF c = 1 THEN extra ELSE <<>>)
    IN Dict([c \in DOMAIN DEFAULT_COLUMNS |->
                Entry(DEFAULT_COLUMNS[c], List(NormalizeTasks(column(c))))])

\* C19: an old-format document, whatever the order of its keys, loads as
\* the one project "Default Project" with the columns C19 states, no
\* dict-shaped task lost.
C19_LegacyMigration ==
    (FirstLoad /\ IsLegacyDocument(data_file))
        => /\ Loaded
           /\ ProjectEntries(all_projects_data)
                 = {Entry(DEFAULT_PROJECT_NAME, LegacyExpected(data_file.value))}

\* a project-format document: its values (other than _meta) are mappings
\* from column names to lists, with or without all three fixed columns
IsProjectDocument(file) ==
    /\ IsObject(file)
    /\ ProjectEntries(file.value) # {}
    /\ \A e \in ProjectEntries(file.value) :
          /\ IsDict(e.items[1])
          /\ \A col \in Range(e.items[1].items) : IsList(col.items[1])

\* C20: a project-format document loads with the same project names, each
\* fixed column holding the tasks the document has for it, or none.
C20_ProjectsPreserved ==
    (FirstLoad /\ IsProjectDocument(data_file))
        => /\ Loaded
           /\ Names(ProjectEntries(all_projects_data))
                 = Names(ProjectEntries(data_file.value))
           /\ \A e \in ProjectEntries(data_file.value) :
                 \A c \in DOMAIN DEFAULT_COLUMNS :
                     Get(Get(all_projects_data, e.str, JNull),
                         DEFAULT_COLUMNS[c], JNull)
                       = List(NormalizeTasks(
                             Get(e.items[1], DEFAULT_COLUMNS[c], List(<<>>)).items))

\* C21: when the data file is missing, or its bytes are no JSON document,
\* load_data returns the one empty project "Default Project" and no _meta.
C21_DefaultOnCorrupt ==
    (FirstLoad /\ data_file.kind \in {"absent", "notjson", "undecodable"})
        => all_projects_data = DefaultWorkspace

\* lines 253-255: all_projects_data.get("_meta", {}).get("last_project");
\* a _meta that is no dict has no get
load_last_project_from_data(workspace) ==
    LET meta == Get(workspace, "_meta", Dict(<<>>))
    IN IF IsDict(meta) THEN Get(meta, "last_project", JNull) ELSE Raised

\* C22: the loaded workspace has a _meta entry exactly if the document has
\* one, with the same value, and a last_project in it is what
\* load_last_project_from_data returns.
C22_MetaPassThrough ==
    (FirstLoad /\ IsObject(data_file) /\ Loaded)
        => LET doc == data_file.value
           IN /\ Has(all_projects_data, "_meta") <=> Has(doc, "_meta")
              /\ Has(doc, "_meta")
                    => Get(all_projects_data, "_meta", JNull)
                         = Get(doc, "_meta", JNull)
              /\ (IsDict(Get(doc, "_meta", JNull))
                     /\ Has(Get(doc, "_meta", JNull), "last_project"))
                    => load_last_project_from_data(all_projects_data)
                         = Get(Get(doc, "_meta", JNull), "last_project", JNull)

\* ------------------------------------------------------------------------
\* main.py: the running program (cli_main, main, manage_projects_modal)
\* ------------------------------------------------------------------------

Max(a, b) == IF a >= b THEN a ELSE b
Min(a, b) == IF a <= b THEN a ELSE b
\* list.pop(i), list.insert(i, x) and the swap of two elements, for the
\* indices of Python, which start at 0
Pop(list, i) == SubSeq(list, 1, i) \o SubSeq(list, i + 2, Len(list))
Insert(list, i, x) ==
    LET at == Min(i, Len(list))
    IN SubSeq(list, 1, at) \o <<x>> \o SubSeq(list, at + 1, Len(list))
Swap(list, i, j) ==
    [n \in DOMAIN list |->
        IF n = i + 1 THEN list[j + 1]
        ELSE IF n = j + 1 THEN list[i + 1] ELSE list[n]]
InList(list, x) == \E n \in DOMAIN list : list[n] = x
\* list.index(x)
Index(list, x) == (CHOOSE n \in DOMAIN list : list[n] = x) - 1

\* ---- save_data (lines 242-245)
\* open(DATA_FILE, 'w') raises and leaves the file alone, or it truncates
\* the file, after which json.dump writes the document or raises part-way.
SaveOutcomes == {"saved", "open_failed", "write_failed"}
save_data(file, workspace, outcome) ==
    CASE outcome = "saved" -> Dump(workspace)
      [] outcome = "open_failed" -> file
      [] OTHER -> NotJson

\* a list of projects that does not leave "_meta" out
AllKeys(workspace) == Keys(workspace)
\* [key for key in all_projects_data.keys() if key != "_meta"]
ProjectNames(workspace) ==
    SelectSeq(Keys(workspace), LAMBDA name : name # "_meta")

\* save_last_project_to_data (lines 247-251); a "_meta" that is no dict
\* raises
save_last_project_to_data(workspace, project_name) ==
    LET with_meta == IF Has(workspace, "_meta") THEN workspace
                     ELSE Set(workspace, "_meta", Dict(<<>>))
        meta == Get(with_meta, "_meta", JNull)
    IN IF IsDict(meta)
       THEN Set(with_meta, "_meta",
                Set(meta, "last_project", Str(project_name)))
       ELSE Raised

\* tasks_data.get(DEFAULT_COLUMNS[col_idx], []) of a project
ColumnTasks(workspace, project_name, col_idx) ==
    Get(Get(workspace, project_name, Dict(<<>>)),
        DEFAULT_COLUMNS[col_idx + 1], List(<<>>)).items
\* the workspace after the column of a project became `tasks`
WithColumn(workspace, project_name, col_idx, tasks) ==
    Set(workspace, project_name,
        Set(Get(workspace, project_name, Dict(<<>>)),
            DEFAULT_COLUMNS[col_idx + 1], List(tasks)))
current_col_tasks ==
    ColumnTasks(all_projects_data, current_project_name, current_column_idx)

\* ---- what the user types
\* get_input returns the text without surrounding blanks (line 270)
strip(text) ==
    CASE text = " " -> ""
      [] text = " B " -> "B"
      [] OTHER -> text
\* str.lower() and the first letter of str.upper(), for the texts typed
lower(text) == IF text = "Y" THEN "y" ELSE text
UpperInitial(text) ==
    CASE text = "l" -> "L"
      [] OTHER -> text
NameInputs == {"", " ", "B", " B ", "C", "_meta"}
TitleInputs == {"", "call"}
PriorityInputs == {"", "M", "l", "H"}
ConfirmInputs == {"Y", ""}
\* generate_id() (lines 175-177): the n-th id it returns
NewIds == <<"n1", "n2", "n3", "n4", "n5", "n6", "n7", "n8">>
generate_id(n) == NewIds[n]

\* ---- the data files the program is started with
BoardA ==
    Dict(<<Entry("To Do", List(<<FullTask, OtherTask>>)),
           Entry("In Progress", List(<<UntitledTask>>)),
           Entry("Done", List(<<>>))>>)
StartMetaValues ==
    {Missing,
     Dict(<<Entry("last_project", Str("B"))>>),
     Dict(<<Entry("last_project", Str("gone"))>>),
     Dict(<<Entry("theme", Str("dark"))>>),
     Num("5")}
StartDocuments ==
    {NoFile, Undecodable,
     Document(Dict(<<Entry("A", BoardA)>>))}
    \cup {Document(DictOf(<<"A", "_meta", "B">>, <<BoardA, m, EmptyProject>>)) :
            m \in StartMetaValues}

\* ---- leaving a handler
Running == app_pc \in {"board", "move", "modal"}
\* getch returns the key k, and the handler of k gets `texts` from get_input
KeyRead(k, texts) ==
    /\ key_count < key_limit
    /\ key_count' = key_count + 1
    /\ key' = k
    /\ typed' = texts
NoModal == project_names' = <<>> /\ selected_idx' = 0 /\ modal_current' = ""
NoMove ==
    original_col_idx' = 0 /\ original_task_idx' = 0 /\ moving_task' = JNull
\* one call of save_data and the save_data calls of a step, in order: the
\* data file they leave and the workspace the last one was given
Call(outcome, workspace) == [outcome |-> outcome, workspace |-> workspace]
RECURSIVE FileAfter(_, _)
FileAfter(file, made) ==
    IF made = <<>> THEN file
    ELSE FileAfter(save_data(file, Head(made).workspace, Head(made).outcome),
                   Tail(made))
Saves(made) ==
    /\ saving' = [n \in DOMAIN made |-> made[n].outcome]
    /\ data_file' = FileAfter(data_file, made)
    /\ saved' = IF made = <<>> THEN saved ELSE made[Len(made)].workspace
\* back at the top of the loop of main (lines 730-738), waiting in getch
LoopTop(workspace, project_name, col_idx, task_idx) ==
    LET col == IF col_idx >= Len(DEFAULT_COLUMNS) THEN 0 ELSE col_idx
        tasks == ColumnTasks(workspace, project_name, col)
    IN /\ all_projects_data' = workspace
       /\ current_project_name' = project_name
       /\ IF Has(workspace, project_name)
          THEN /\ app_pc' = "board"
               /\ exit_status' = exit_status
               /\ current_column_idx' = col
               /\ current_task_idx_in_col' =
                    IF task_idx >= Len(tasks) THEN Max(0, Len(tasks) - 1)
                    ELSE task_idx
          ELSE /\ app_pc' = "exited"
               /\ exit_status' = 1
               /\ current_column_idx' = col_idx
               /\ current_task_idx_in_col' = task_idx
\* an exception other than KeyboardInterrupt and curses.error leaves main:
\* cli_main prints it and calls sys.exit(1) (lines 1057-1063)
Crash(workspace) ==
    /\ app_pc' = "exited"
    /\ exit_status' = 1
    /\ all_projects_data' = workspace
    /\ UNCHANGED <<current_project_name, cursor>>
\* main returns: curses.wrapper and cli_main return, the exit status is 0
Return ==
    /\ app_pc' = "exited"
    /\ exit_status' = 0
    /\ UNCHANGED <<all_projects_data, current_project_name, cursor>>

async == <<mgr, save_queue, ws, pc, req, wr, caller_hist, log, fs>>

\* ---- main, lines 690-708
\* lines 691-705, for the value load_data returned at line 690
Started(loaded) ==
    LET project_names_list ==
            IF IsDict(loaded) THEN ProjectNames(loaded) ELSE <<>>
        last_project ==
            IF IsDict(loaded) THEN load_last_project_from_data(loaded)
            ELSE Raised
        name ==
            IF /\ last_project.kind = "str"
               /\ last_project.str # ""
               /\ InList(project_names_list, last_project.str)
            THEN last_project.str
            ELSE IF project_names_list # <<>> THEN project_names_list[1]
            ELSE DEFAULT_PROJECT_NAME
        ensured == IF Has(loaded, name) THEN loaded
                   ELSE Set(loaded, name, EmptyProject)
        remembered == save_last_project_to_data(ensured, name)
    IN IF loaded = Raised \/ last_project = Raised \/ remembered = Raised
       THEN Crash(loaded)
       ELSE LoopTop(remembered, name, 0, 0)

Startup ==
    /\ app_pc = "start"
    /\ Started(load_data(data_file))
    /\ UNCHANGED <<data_file, saved, move, modal, key_count, key, typed,
                   saving, async, rest>>

\* ---- main, navigation (lines 751-769)
BoardLeft ==
    /\ app_pc = "board"
    /\ KeyRead("LEFT", <<>>)
    /\ LET col == (current_column_idx - 1) % Len(DEFAULT_COLUMNS)
           new_col_tasks == ColumnTasks(all_projects_data,
                                        current_project_name, col)
       IN LoopTop(all_projects_data, current_project_name, col,
                  Min(current_task_idx_in_col, Max(0, Len(new_col_tasks) - 1)))
    /\ Saves(<<>>)
    /\ UNCHANGED <<move, modal, async, rest>>

BoardRight ==
    /\ app_pc = "board"
    /\ KeyRead("RIGHT", <<>>)
    /\ LET col == (current_column_idx + 1) % Len(DEFAULT_COLUMNS)
           new_col_tasks == ColumnTasks(all_projects_data,
                                        current_project_name, col)
       IN LoopTop(all_projects_data, current_project_name, col,
                  Min(current_task_idx_in_col, Max(0, Len(new_col_tasks) - 1)))
    /\ Saves(<<>>)
    /\ UNCHANGED <<move, modal, async, rest>>

\* an Up key that steps above the first task
BoardUpNoWrap ==
    /\ app_pc = "board"
    /\ KeyRead("UP", <<>>)
    /\ LoopTop(all_projects_data, current_project_name, current_column_idx,
               IF current_col_tasks # <<>>
               THEN current_task_idx_in_col - 1
               ELSE current_task_idx_in_col)
    /\ Saves(<<>>)
    /\ UNCHANGED <<move, modal, async, rest>>

BoardUp ==
    /\ app_pc = "board"
    /\ KeyRead("UP", <<>>)
    /\ LoopTop(all_projects_data, current_project_name, current_column_idx,
               IF current_col_tasks # <<>>
               THEN (current_task_idx_in_col - 1) % Len(current_col_tasks)
               ELSE current_task_idx_in_col)
    /\ Saves(<<>>)
    /\ UNCHANGED <<move, modal, async, rest>>

BoardDown ==
    /\ app_pc = "board"
    /\ KeyRead("DOWN", <<>>)
    /\ LoopTop(all_projects_data, current_project_name, current_column_idx,
               IF current_col_tasks # <<>>
               THEN (current_task_idx_in_col + 1) % Len(current_col_tasks)
               ELSE current_task_idx_in_col)
    /\ Saves(<<>>)
    /\ UNCHANGED <<move, modal, async, rest>>

\* 'q' (lines 772-773), then the final auto_save (lines 1016-1020), which
\* swallows the failure of save_data
Quit ==
    /\ app_pc = "board"
    /\ KeyRead("q", <<>>)
    /\ \E outcome \in SaveOutcomes : Saves(<<Call(outcome, all_projects_data)>>)
    /\ Return
    /\ UNCHANGED <<move, modal, async, rest>>

\* a main without the handler of lines 1000-1007: KeyboardInterrupt reaches
\* cli_main, which calls sys.exit(0) (lines 1048-1050)
InterruptUnhandled ==
    /\ Running
    /\ Saves(<<>>)
    /\ Return
    /\ key' = "SIGINT"
    /\ UNCHANGED <<move, modal, key_count, typed, async, rest>>

\* KeyboardInterrupt while main waits in getch, in the board, in move mode
\* or in the modal (lines 1000-1007): auto_save, then main returns
Interrupt ==
    /\ Running
    /\ \E outcome \in SaveOutcomes : Saves(<<Call(outcome, all_projects_data)>>)
    /\ Return
    /\ key' = "SIGINT"
    /\ UNCHANGED <<move, modal, key_count, typed, async, rest>>

\* ---- manage_projects_modal (lines 294-451)
\* the modal waits in getch again
StayModal(workspace, names, idx, name) ==
    /\ app_pc' = "modal"
    /\ all_projects_data' = workspace
    /\ project_names' = names
    /\ selected_idx' = idx
    /\ modal_current' = name
    /\ UNCHANGED <<exit_status, current_project_name, cursor>>
\* the modal returns new_project after the save_data calls `made`; main
\* goes on at lines 778-784 and at the top of its loop
ModalReturns(workspace, new_project, made) ==
    /\ NoModal
    /\ IF new_project # current_project_name
       THEN LET remembered ==
                    save_last_project_to_data(workspace, new_project)
            IN \E outcome \in SaveOutcomes :
                  /\ Saves(Append(made, Call(outcome, remembered)))
                  /\ LoopTop(remembered, new_project, 0, 0)
       ELSE /\ Saves(made)
            /\ LoopTop(workspace, current_project_name, current_column_idx,
                       current_task_idx_in_col)
\* a save_data call of the modal, which nothing guards: when it raises, the
\* exception leaves the modal and main
ModalSaves(workspace, outcome, names, idx, name) ==
    /\ Saves(<<Call(outcome, workspace)>>)
    /\ IF outcome = "saved"
       THEN StayModal(workspace, names, idx, name)
       ELSE Crash(workspace) /\ UNCHANGED modal

\* 'p' (lines 775-777) and lines 308-311
OpenModal ==
    /\ app_pc = "board"
    /\ KeyRead("p", <<>>)
    /\ LET names == ProjectNames(all_projects_data)
       IN StayModal(all_projects_data, names,
                    IF InList(names, current_project_name)
                    THEN Index(names, current_project_name) ELSE 0,
                    current_project_name)
    /\ Saves(<<>>)
    /\ UNCHANGED <<move, async, rest>>

\* lines 368-373
ModalUp ==
    /\ app_pc = "modal"
    /\ KeyRead("UP", <<>>)
    /\ StayModal(all_projects_data, project_names,
                 IF selected_idx > 0 THEN selected_idx - 1 ELSE selected_idx,
                 modal_current)
    /\ Saves(<<>>)
    /\ UNCHANGED <<move, async, rest>>

\* a modal whose Down key wraps around to the first project
ModalDownWrapping ==
    /\ app_pc = "modal"
    /\ KeyRead("DOWN", <<>>)
    /\ StayModal(all_projects_data, project_names,
                 (selected_idx + 1) % Len(project_names), modal_current)
    /\ Saves(<<>>)
    /\ UNCHANGED <<move, async, rest>>

ModalDown ==
    /\ app_pc = "modal"
    /\ KeyRead("DOWN", <<>>)
    /\ StayModal(all_projects_data, project_names,
                 IF selected_idx < Len(project_names) - 1
                 THEN selected_idx + 1 ELSE selected_idx,
                 modal_current)
    /\ Saves(<<>>)
    /\ UNCHANGED <<move, async, rest>>

\* Enter (lines 374-378)
ModalSelect ==
    /\ app_pc = "modal"
    /\ KeyRead("ENTER", <<>>)
    /\ ModalReturns(all_projects_data,
                    IF project_names # <<>>
                    THEN project_names[selected_idx + 1] ELSE modal_current,
                    <<>>)
    /\ UNCHANGED <<move, async, rest>>

\* 'q' or Esc (lines 450-451)
ModalCancel ==
    /\ app_pc = "modal"
    /\ KeyRead("q", <<>>)
    /\ ModalReturns(all_projects_data, modal_current, <<>>)
    /\ UNCHANGED <<move, async, rest>>

\* a modal that takes any name
NameFreeAlways(new_name) == TRUE
\* lines 383 and 401: new_name not in all_projects_data
NameFree(new_name) == ~Has(all_projects_data, new_name)

\* 'n' (lines 379-393)
Created(new_name) ==
    Set(all_projects_data, new_name, EmptyProject)
ModalNew(text) ==
    /\ app_pc = "modal"
    /\ KeyRead("n", <<strip(text)>>)
    /\ LET new_name == strip(text)
           names == ProjectNames(Created(new_name))
       IN IF new_name # "" /\ NameFree(new_name)
          THEN IF InList(names, new_name)
               THEN \E outcome \in SaveOutcomes :
                       ModalSaves(Created(new_name), outcome, names,
                                  Index(names, new_name), modal_current)
               ELSE Saves(<<>>) /\ Crash(Created(new_name))
                    /\ UNCHANGED modal
          ELSE /\ StayModal(all_projects_data, project_names, selected_idx,
                            modal_current)
               /\ Saves(<<>>)
    /\ UNCHANGED <<move, async, rest>>

\* a rename that leaves "_meta" alone
RenamedOnly(old_name, new_name) ==
    Without(Set(all_projects_data, new_name,
                Get(all_projects_data, old_name, JNull)),
            old_name)
\* 'r' (lines 394-429): lines 403-410
Renamed(old_name, new_name) ==
    LET moved == Without(Set(all_projects_data, new_name,
                             Get(all_projects_data, old_name, JNull)),
                         old_name)
        meta == Get(moved, "_meta", Dict(<<>>))
    IN IF ~IsDict(meta) THEN Raised
       ELSE IF Get(meta, "last_project", JNull) = Str(old_name)
       THEN save_last_project_to_data(moved, new_name)
       ELSE moved
ModalRename(text) ==
    /\ app_pc = "modal"
    /\ KeyRead("r",
               IF project_names # <<>> THEN <<strip(text)>> ELSE <<>>)
    /\ LET old_name == project_names[selected_idx + 1]
           new_name == strip(text)
           names == ProjectNames(Renamed(old_name, new_name))
       IN IF /\ project_names # <<>>
             /\ new_name # "" /\ new_name # old_name
             /\ NameFree(new_name)
          THEN IF Renamed(old_name, new_name) # Raised
                  /\ InList(names, new_name)
               THEN \E outcome \in SaveOutcomes :
                       ModalSaves(Renamed(old_name, new_name), outcome, names,
                                  Index(names, new_name),
                                  IF old_name = modal_current THEN new_name
                                  ELSE modal_current)
               ELSE Saves(<<>>) /\ Crash(all_projects_data)
                    /\ UNCHANGED modal
          ELSE /\ StayModal(all_projects_data, project_names, selected_idx,
                            modal_current)
               /\ Saves(<<>>)
    /\ UNCHANGED <<move, async, rest>>

\* 'd' (lines 430-449)
\* a modal that deletes whatever the number of projects
DeleteAllowedAlways == project_names # <<>>
\* line 432
DeleteAllowed == Len(project_names) > 1
ModalDelete(text) ==
    /\ app_pc = "modal"
    /\ KeyRead("d", IF DeleteAllowed THEN <<strip(text)>> ELSE <<>>)
    /\ IF DeleteAllowed /\ lower(strip(text)) = "y"
       THEN LET project_to_delete == project_names[selected_idx + 1]
                deleted == Without(all_projects_data, project_to_delete)
                names == ProjectNames(deleted)
                idx == IF selected_idx >= Len(names) THEN Len(names) - 1
                       ELSE selected_idx
            IN \E outcome \in SaveOutcomes :
                  IF outcome = "saved" /\ project_to_delete = modal_current
                  THEN ModalReturns(deleted,
                                    IF names # <<>> THEN names[idx + 1]
                                    ELSE DEFAULT_PROJECT_NAME,
                                    <<Call(outcome, deleted)>>)
                  ELSE ModalSaves(deleted, outcome, names, idx, modal_current)
       ELSE /\ StayModal(all_projects_data, project_names, selected_idx,
                         modal_current)
            /\ Saves(<<>>)
    /\ UNCHANGED <<move, async, rest>>

\* ---- main, the task keys (lines 786-847 and 969-994)
\* auto_save (lines 711-725) swallows the failure of save_data; then the
\* loop starts over
AutoSaved(workspace, col_idx, task_idx) ==
    /\ \E outcome \in SaveOutcomes : Saves(<<Call(outcome, workspace)>>)
    /\ LoopTop(workspace, current_project_name, col_idx, task_idx)
\* nothing changed and nothing was saved
Unchanged ==
    /\ Saves(<<>>)
    /\ LoopTop(all_projects_data, current_project_name, current_column_idx,
               current_task_idx_in_col)

\* 'a' (lines 786-816)
KeyAdd(title_text, priority_text) ==
    /\ app_pc = "board"
    /\ KeyRead("a",
               IF strip(title_text) # ""
               THEN <<strip(title_text), strip(priority_text)>>
               ELSE <<strip(title_text)>>)
    /\ LET title == strip(title_text)
           priority_choice == UpperInitial(strip(priority_text))
           priority == IF priority_choice = "L" THEN "Low"
                       ELSE IF priority_choice = "H" THEN "High"
                       ELSE DEFAULT_PRIORITY
           new_task == Dict(<<Entry("id", Str(generate_id(key_count + 1))),
                              Entry("title", Str(title)),
                              Entry("priority", Str(priority))>>)
           tasks == Append(current_col_tasks, new_task)
       IN IF title # ""
          THEN AutoSaved(WithColumn(all_projects_data, current_project_name,
                                    current_column_idx, tasks),
                         current_column_idx, Len(tasks) - 1)
          ELSE Unchanged
    /\ UNCHANGED <<move, modal, async, rest>>

\* 'e' (lines 818-847)
KeyEdit(title_text, priority_text) ==
    /\ app_pc = "board"
    /\ KeyRead("e",
               IF current_col_tasks = <<>> THEN <<>>
               ELSE IF strip(title_text) # ""
               THEN <<strip(title_text), strip(priority_text)>>
               ELSE <<strip(title_text)>>)
    /\ LET task == current_col_tasks[current_task_idx_in_col + 1]
           new_title == strip(title_text)
           priority_choice == UpperInitial(strip(priority_text))
           titled == Set(task, "title", Str(new_title))
           edited == IF priority_choice = "L"
                     THEN Set(titled, "priority", Str("Low"))
                     ELSE IF priority_choice = "H"
                     THEN Set(titled, "priority", Str("High"))
                     ELSE IF priority_choice = "M"
                     THEN Set(titled, "priority", Str("Mid"))
                     ELSE titled
       IN IF current_col_tasks # <<>> /\ new_title # ""
          THEN AutoSaved(WithColumn(all_projects_data, current_project_name,
                                    current_column_idx,
                                    [current_col_tasks EXCEPT
                                        ![current_task_idx_in_col + 1] = edited]),
                         current_column_idx, current_task_idx_in_col)
          ELSE Unchanged
    /\ UNCHANGED <<move, modal, async, rest>>

\* 'd' (lines 969-994)
KeyDelete(text) ==
    /\ app_pc = "board"
    /\ KeyRead("d",
               IF current_col_tasks # <<>> THEN <<strip(text)>> ELSE <<>>)
    /\ LET after_del == Pop(current_col_tasks, current_task_idx_in_col)
       IN IF current_col_tasks # <<>> /\ lower(strip(text)) = "y"
          THEN AutoSaved(WithColumn(all_projects_data, current_project_name,
                                    current_column_idx, after_del),
                         current_column_idx,
                         IF after_del = <<>> THEN 0
                         ELSE IF current_task_idx_in_col >= Len(after_del)
                         THEN Len(after_del) - 1
                         ELSE current_task_idx_in_col)
          ELSE Unchanged
    /\ UNCHANGED <<move, modal, async, rest>>

\* ---- main, move mode (lines 849-967)
\* move_key = stdscr.getch() (line 877): move mode reads any number of
\* arrow keys and Esc.  The task only travels over the finitely many
\* positions of the board, so these keys are left out of the count that
\* MaxKeys caps; Enter, which keeps the new position, is counted.
MoveKeyRead(k) ==
    /\ key' = k
    /\ typed' = <<>>
    /\ UNCHANGED key_count
\* move mode waits in getch again
StayMove(workspace, col_idx, task_idx) ==
    /\ app_pc' = "move"
    /\ all_projects_data' = workspace
    /\ current_column_idx' = col_idx
    /\ current_task_idx_in_col' = task_idx
    /\ Saves(<<>>)
    /\ UNCHANGED <<exit_status, current_project_name>>

\* 'm' (lines 849-860)
KeyMove ==
    /\ app_pc = "board"
    /\ KeyRead("m", <<>>)
    /\ IF current_col_tasks # <<>>
       THEN /\ StayMove(all_projects_data, current_column_idx,
                        current_task_idx_in_col)
            /\ moving_task' = current_col_tasks[current_task_idx_in_col + 1]
            /\ original_col_idx' = current_column_idx
            /\ original_task_idx' = current_task_idx_in_col
       ELSE Unchanged /\ UNCHANGED move
    /\ UNCHANGED <<modal, async, rest>>

\* a move that appends `task` and pops nothing
CopiedTo(new_col_idx) ==
    WithColumn(all_projects_data, current_project_name, new_col_idx,
               Append(ColumnTasks(all_projects_data, current_project_name,
                                  new_col_idx),
                      moving_task))
\* lines 880-892 and 896-908: pop from the current column, append `task`
\* to the column new_col_idx
MovedTo(new_col_idx) ==
    LET popped == WithColumn(all_projects_data, current_project_name,
                             current_column_idx,
                             Pop(current_col_tasks, current_task_idx_in_col))
    IN WithColumn(popped, current_project_name, new_col_idx,
                  Append(ColumnTasks(popped, current_project_name, new_col_idx),
                         moving_task))
MoveTo(new_col_idx) ==
    IF new_col_idx # current_column_idx
    THEN StayMove(MovedTo(new_col_idx), new_col_idx,
                  Len(ColumnTasks(MovedTo(new_col_idx), current_project_name,
                                  new_col_idx)) - 1)
    ELSE StayMove(all_projects_data, current_column_idx,
                  current_task_idx_in_col)

MoveLeft ==
    /\ app_pc = "move"
    /\ MoveKeyRead("LEFT")
    /\ MoveTo((current_column_idx - 1) % Len(DEFAULT_COLUMNS))
    /\ UNCHANGED <<move, modal, async, rest>>

MoveRight ==
    /\ app_pc = "move"
    /\ MoveKeyRead("RIGHT")
    /\ MoveTo((current_column_idx + 1) % Len(DEFAULT_COLUMNS))
    /\ UNCHANGED <<move, modal, async, rest>>

\* lines 910-916
MoveUp ==
    /\ app_pc = "move"
    /\ MoveKeyRead("UP")
    /\ IF current_task_idx_in_col > 0
       THEN StayMove(WithColumn(all_projects_data, current_project_name,
                                current_column_idx,
                                Swap(current_col_tasks, current_task_idx_in_col,
                                     current_task_idx_in_col - 1)),
                     current_column_idx, current_task_idx_in_col - 1)
       ELSE StayMove(all_projects_data, current_column_idx,
                     current_task_idx_in_col)
    /\ UNCHANGED <<move, modal, async, rest>>

\* lines 918-924
MoveDown ==
    /\ app_pc = "move"
    /\ MoveKeyRead("DOWN")
    /\ IF current_task_idx_in_col < Len(current_col_tasks) - 1
       THEN StayMove(WithColumn(all_projects_data, current_project_name,
                                current_column_idx,
                                Swap(current_col_tasks, current_task_idx_in_col,
                                     current_task_idx_in_col + 1)),
                     current_column_idx, current_task_idx_in_col + 1)
       ELSE StayMove(all_projects_data, current_column_idx,
                     current_task_idx_in_col)
    /\ UNCHANGED <<move, modal, async, rest>>

\* Enter (lines 926-937)
MoveConfirm ==
    /\ app_pc = "move"
    /\ KeyRead("ENTER", <<>>)
    /\ AutoSaved(all_projects_data, current_column_idx,
                 current_task_idx_in_col)
    /\ NoMove
    /\ UNCHANGED <<modal, async, rest>>

\* a cancel that puts the task back at the end of its original column
MoveCancelAppends ==
    /\ app_pc = "move"
    /\ MoveKeyRead("ESC")
    /\ LET popped == WithColumn(all_projects_data, current_project_name,
                                current_column_idx,
                                Pop(current_col_tasks, current_task_idx_in_col))
           restored ==
               WithColumn(popped, current_project_name, original_col_idx,
                          Append(ColumnTasks(popped, current_project_name,
                                             original_col_idx),
                                 moving_task))
       IN LoopTop(restored, current_project_name, original_col_idx,
                  original_task_idx)
    /\ Saves(<<>>)
    /\ NoMove
    /\ UNCHANGED <<modal, async, rest>>

\* Esc (lines 939-961)
MoveCancel ==
    /\ app_pc = "move"
    /\ MoveKeyRead("ESC")
    /\ LET popped == WithColumn(all_projects_data, current_project_name,
                                current_column_idx,
                                Pop(current_col_tasks, current_task_idx_in_col))
           restored ==
               WithColumn(popped, current_project_name, original_col_idx,
                          Insert(ColumnTasks(popped, current_project_name,
                                             original_col_idx),
                                 original_task_idx, moving_task))
       IN IF current_column_idx # original_col_idx
             \/ current_task_idx_in_col # original_task_idx
          THEN LoopTop(restored, current_project_name, original_col_idx,
                       original_task_idx)
          ELSE LoopTop(all_projects_data, current_project_name,
                       current_column_idx, current_task_idx_in_col)
    /\ Saves(<<>>)
    /\ NoMove
    /\ UNCHANGED <<modal, async, rest>>

\* ---- the program is started with one of the data files and reads at
\* most MaxKeys keys; the save manager of async_save.py, which main.py does
\* not use, stays idle.
AppInit ==
    /\ ManagerInit
    /\ fs.target = Absent
    /\ data_file \in StartDocuments
    /\ all_projects_data = NoWorkspace
    /\ saved = NoWorkspace
    /\ NotStarted
    /\ key_limit = MaxKeys

AppNext ==
    \/ Startup
    \/ BoardLeft \/ BoardRight \/ BoardUp \/ BoardDown
    \/ Quit
    \/ Interrupt
    \/ OpenModal
    \/ ModalUp \/ ModalDown \/ ModalSelect \/ ModalCancel
    \/ \E text \in NameInputs : ModalNew(text)
    \/ \E text \in NameInputs : ModalRename(text)
    \/ \E text \in ConfirmInputs : ModalDelete(text)
    \/ \E title_text \in TitleInputs, priority_text \in PriorityInputs :
          KeyAdd(title_text, priority_text)
    \/ \E title_text \in TitleInputs, priority_text \in PriorityInputs :
          KeyEdit(title_text, priority_text)
    \/ \E text \in ConfirmInputs : KeyDelete(text)
    \/ KeyMove
    \/ MoveLeft \/ MoveRight \/ MoveUp \/ MoveDown
    \/ MoveConfirm \/ MoveCancel

AppSpec == AppInit /\ [][AppNext]_vars

\* ---- a longer run: the program is started with one data file, whose
\* _meta names the second project, and reads up to MaxKeys + MoreKeys keys
SessionDocument ==
    Document(DictOf(<<"A", "_meta", "B">>,
                    <<EmptyProject,
                      Dict(<<Entry("last_project", Str("B"))>>),
                      BoardA>>))
SessionInit ==
    /\ ManagerInit
    /\ fs.target = Absent
    /\ data_file = SessionDocument
    /\ all_projects_data = NoWorkspace
    /\ saved = NoWorkspace
    /\ NotStarted
    /\ key_limit = MaxKeys + MoreKeys

SessionSpec == SessionInit /\ [][AppNext]_vars

\* ---- properties of the running program
\* C23: a workspace the program holds, after load_data and after every
\* operation of the project modal, has at least one project; and a delete
\* request in the modal when exactly one project is left is rejected: the
\* workspace stays as it is and nothing is saved.
C23_AtLeastOneProject ==
    [][/\ IsDict(all_projects_data') =>
             ProjectNames(all_projects_data') # <<>>
       /\ ((\E text \in ConfirmInputs : ModalDelete(text))
             /\ Len(ProjectNames(all_projects_data)) = 1)
          => /\ all_projects_data' = all_projects_data
             /\ data_file' = data_file
             /\ saving' = <<>>]_vars
\* the modal has turned down the delete of the only project
C23_LastDeleteRejected ==
    /\ app_pc = "modal" /\ key = "d"
    /\ Len(ProjectNames(all_projects_data)) = 1
    /\ typed = <<>>

\* C24: in the modal a create or a rename whose name is empty or in use by
\* a project is rejected: the workspace and the data file stay as they are
\* and nothing is saved; a create with a free name adds, after the other
\* projects, a project with the three fixed columns empty.
C24_UniqueNonEmptyNames ==
    [][\A text \in NameInputs :
          LET new_name == strip(text)
              names == ProjectNames(all_projects_data)
          IN /\ ((ModalNew(text) \/ ModalRename(text))
                   /\ (new_name = "" \/ InList(names, new_name)))
                => /\ all_projects_data' = all_projects_data
                   /\ data_file' = data_file
                   /\ saving' = <<>>
             /\ (ModalNew(text) /\ new_name # ""
                   /\ ~Has(all_projects_data, new_name))
                => /\ Get(all_projects_data', new_name, JNull) = EmptyProject
                   /\ ProjectNames(all_projects_data') = Append(names, new_name)
                   /\ \A n \in DOMAIN names :
                         Get(all_projects_data', names[n], JNull)
                            = Get(all_projects_data, names[n], JNull)
                   /\ Get(all_projects_data', "_meta", JNull)
                         = Get(all_projects_data, "_meta", JNull)]_vars
\* the modal has turned down the rename of a project to the name of another
C24_DuplicateRenameRejected ==
    /\ app_pc = "modal" /\ key = "r" /\ typed # <<>>
    /\ typed[1] # project_names[selected_idx + 1]
    /\ InList(project_names, typed[1])
    /\ saving = <<>>

\* C25: once the program runs, whether or not the data file had a "_meta"
\* entry, "_meta" is not in the project list of the modal and is not the
\* current project of main or of the modal, and the "_meta" entry of the
\* workspace is the metadata dict, never the columns of a project.
C25_MetaNeverProject ==
    (app_pc # "start" /\ IsDict(all_projects_data)
        /\ (Running \/ key_count > 0))
    => /\ ~InList(project_names, "_meta")
       /\ current_project_name # "_meta"
       /\ modal_current # "_meta"
       /\ Has(all_projects_data, "_meta")
       /\ LET meta == Get(all_projects_data, "_meta", JNull)
          IN /\ IsDict(meta)
             /\ \A c \in DOMAIN DEFAULT_COLUMNS : ~Has(meta, DEFAULT_COLUMNS[c])
\* the user has asked the modal for a project named "_meta"
C25_MetaNameTyped ==
    /\ app_pc = "modal" /\ key \in {"n", "r"} /\ typed = <<"_meta">>

\* the tasks of a project, column after column
ProjectTasks(workspace, project_name) ==
    ColumnTasks(workspace, project_name, 0)
       \o ColumnTasks(workspace, project_name, 1)
       \o ColumnTasks(workspace, project_name, 2)
\* C26: every task of the current project is in one column, once; a step
\* of move mode keeps the set of tasks of the project; and a move to
\* another column pops the task from its column and appends it to the other.
C26_ExclusiveOwnership ==
    [][/\ (app_pc' \in {"board", "move", "modal"}) =>
             LET tasks == ProjectTasks(all_projects_data',
                                       current_project_name')
             IN Cardinality(Range(tasks)) = Len(tasks)
       /\ (app_pc = "move" \/ KeyMove) =>
             Range(ProjectTasks(all_projects_data', current_project_name))
                = Range(ProjectTasks(all_projects_data, current_project_name))
       /\ (MoveLeft \/ MoveRight) =>
             /\ ColumnTasks(all_projects_data', current_project_name,
                            current_column_idx)
                   = Pop(current_col_tasks, current_task_idx_in_col)
             /\ ColumnTasks(all_projects_data', current_project_name,
                            current_column_idx')
                   = Append(ColumnTasks(all_projects_data,
                                        current_project_name,
                                        current_column_idx'),
                            current_col_tasks[current_task_idx_in_col + 1])]_vars
\* in move mode the task has been moved to another column
C26_MovedAcross ==
    /\ app_pc = "move" /\ key \in {"LEFT", "RIGHT"}
    /\ current_column_idx # original_col_idx

\* C27: a KeyboardInterrupt while main waits in the board, in move mode or
\* in the modal makes main call save_data with the current workspace, and
\* whatever that call does cli_main ends with exit status 0.
C27_SaveOnInterrupt ==
    [][Interrupt =>
          /\ saving' # <<>>
          /\ saved' = all_projects_data
          /\ app_pc' = "exited"
          /\ exit_status' = 0]_vars
\* interrupted in move mode, the save failed and the program has ended
C27_InterruptedSaveFailed ==
    /\ app_pc = "exited" /\ key = "SIGINT"
    /\ moving_task # JNull
    /\ saving = <<"write_failed">>
    /\ exit_status = 0

\* the keys of the user that make the program save
SavingAction ==
    \/ \E title_text \in TitleInputs, priority_text \in PriorityInputs :
          KeyAdd(title_text, priority_text) \/ KeyEdit(title_text, priority_text)
    \/ \E text \in ConfirmInputs : KeyDelete(text) \/ ModalDelete(text)
    \/ MoveConfirm
    \/ ModalSelect
    \/ \E text \in NameInputs : ModalNew(text) \/ ModalRename(text)
\* C28: when save_data raises during an action of the user that saves (add,
\* edit, delete or move a task, switch the project, create, rename or delete
\* a project), the program keeps running with the workspace it tried to save.
C28_SaveFailureNoCrash ==
    [][(SavingAction /\ \E n \in DOMAIN saving' : saving'[n] # "saved")
          => /\ app_pc' # "exited"
             /\ all_projects_data' = saved']_vars

\* C29: when the save_data calls of a step fail, a data file that held a
\* workspace still holds it.
C29_SaveDataAtomic ==
    [][(/\ data_file.kind = "json"
        /\ saving' # <<>>
        /\ \A n \in DOMAIN saving' : saving'[n] # "saved")
          => data_file' = data_file]_vars

\* C30: after the modal has renamed a project the new name has what the old
\* name had, the old name is gone, the other projects are as they were, and
\* a last_project that was the old name is the new name.
C30_RenameKeepsData ==
    [][\A text \in NameInputs :
          LET old_name == project_names[selected_idx + 1]
              new_name == strip(text)
              names == ProjectNames(all_projects_data)
          IN (ModalRename(text) /\ new_name # "" /\ new_name # old_name
                /\ ~Has(all_projects_data, new_name))
             => /\ Get(all_projects_data', new_name, JNull)
                     = Get(all_projects_data, old_name, JNull)
                /\ ~Has(all_projects_data', old_name)
                /\ \A n \in DOMAIN names :
                      names[n] # old_name =>
                         Get(all_projects_data', names[n], JNull)
                            = Get(all_projects_data, names[n], JNull)
                /\ Range(ProjectNames(all_projects_data'))
                      = (Range(names) \ {old_name}) \cup {new_name}
                /\ load_last_project_from_data(all_projects_data') =
                      IF load_last_project_from_data(all_projects_data)
                            = Str(old_name)
                      THEN Str(new_name)
                      ELSE load_last_project_from_data(all_projects_data)]_vars
\* the modal has renamed the project that last_project named
C30_CurrentRenamed ==
    /\ app_pc = "modal" /\ key = "r" /\ typed = <<"C">>
    /\ modal_current = "C"
    /\ current_project_name # "C"
    /\ load_last_project_from_data(all_projects_data) = Str("C")

\* C31: in the modal the selected index is one of the projects listed; Up
\* at the first project and Down at the last leave it where it is, any
\* other Up or Down moves it by one; an arrow key never closes the modal
\* and changes nothing else; and the modal returns to the board only on
\* Enter, on q or Esc, or on the deletion of its current project.
C31_ModalNavigationClamped ==
    [][/\ app_pc' = "modal" =>
             /\ selected_idx' >= 0
             /\ selected_idx' <= Len(project_names') - 1
       /\ ModalUp =>
             /\ app_pc' = "modal"
             /\ selected_idx' = IF selected_idx = 0 THEN 0
                                ELSE selected_idx - 1
             /\ UNCHANGED <<all_projects_data, project_names, data_file>>
       /\ ModalDown =>
             /\ app_pc' = "modal"
             /\ selected_idx' = IF selected_idx = Len(project_names) - 1
                                THEN selected_idx ELSE selected_idx + 1
             /\ UNCHANGED <<all_projects_data, project_names, data_file>>
       /\ (app_pc = "modal" /\ app_pc' = "board") =>
             \/ key' \in {"ENTER", "q"}
             \/ /\ key' = "d"
                /\ ~Has(all_projects_data', modal_current)]_vars
\* Down was pressed in the modal that had opened on the last of two projects
C31_DownAtLast ==
    /\ app_pc = "modal" /\ key = "DOWN" /\ key_count = 2
    /\ Len(project_names) = 2
    /\ current_project_name = project_names[2]
    /\ selected_idx = 1

\* ---------------------------------------------------------- draw_board
\* What draw_board (main.py lines 453-647) puts on the screen, column by
\* column: the task count or range of the header in row 1 and the tasks
\* written from row 3 down.  The terminal is wide enough for the three
\* columns; addstr raises curses.error for a row outside the screen and
\* draw_board swallows it.
MaxHeight == 12
MaxTasks == 6

MIN_TASK_DISPLAY_HEIGHT == 1

\* lines 475-481 and lines 555-563: the first task in view, and one past
\* the last; both places compute them in the same way from their own
\* max_tasks_to_show
start_task_idx(is_current, task_idx, total_tasks, max_tasks_to_show) ==
    IF is_current /\ task_idx < total_tasks
    THEN LET start_idx == Max(0, task_idx - max_tasks_to_show + 1)
         IN IF start_idx + max_tasks_to_show > total_tasks
            THEN Max(0, total_tasks - max_tasks_to_show)
            ELSE start_idx
    ELSE 0
end_task_idx(start_idx, total_tasks, max_tasks_to_show) ==
    Min(total_tasks, start_idx + max_tasks_to_show)

\* stdscr.addstr(y, ...) succeeds for a row of the screen
OnScreen(y, h) == y >= 0 /\ y < h

NoHeader == [kind |-> "none", from |-> 0, to |-> 0, total |-> 0]
\* lines 468-493: "name (N)" or "name (X-Y/N)"
header_text(is_current, task_idx, total_tasks, h) ==
    IF total_tasks > 0
    THEN LET max_tasks_to_show == (h - 7) \div MIN_TASK_DISPLAY_HEIGHT
             start_idx == start_task_idx(is_current, task_idx, total_tasks,
                                     max_tasks_to_show)
             end_idx == end_task_idx(start_idx, total_tasks, max_tasks_to_show)
         IN IF max_tasks_to_show >= total_tasks
            THEN [kind |-> "count", from |-> 0, to |-> 0, total |-> total_tasks]
            ELSE [kind |-> "range", from |-> start_idx + 1, to |-> end_idx,
                  total |-> total_tasks]
    ELSE [kind |-> "count", from |-> 0, to |-> 0, total |-> 0]

\* lines 538-610: the indices (from 0) of the tasks written, top to bottom
tasks_drawn(is_current, task_idx, total_tasks, h) ==
    LET header_y == 1
        task_start_y == header_y + 2
        available_height == h - task_start_y - 2
        max_tasks_to_show == available_height \div MIN_TASK_DISPLAY_HEIGHT
        start_idx == start_task_idx(is_current, task_idx, total_tasks,
                                max_tasks_to_show)
        end_idx == end_task_idx(start_idx, total_tasks, max_tasks_to_show)
        in_range == [k \in 1 .. Max(0, end_idx - start_idx) |-> start_idx + k - 1]
    IN SelectSeq(in_range,
                 LAMBDA t : OnScreen(task_start_y
                                       + (t - start_idx) * MIN_TASK_DISPLAY_HEIGHT, h))

draw_board(workspace, project_name, column_idx, task_idx, h) ==
    [i \in 1 .. Len(DEFAULT_COLUMNS) |->
        LET tasks == ColumnTasks(workspace, project_name, i - 1)
            is_current == (i - 1 = column_idx)
        IN [header |-> IF OnScreen(1, h)
                       THEN header_text(is_current, task_idx, Len(tasks), h)
                       ELSE NoHeader,
            empty_text |-> tasks = <<>> /\ OnScreen(3, h),
            drawn |-> IF tasks = <<>> THEN <<>>
                      ELSE tasks_drawn(is_current, task_idx, Len(tasks), h)]]

\* ---- the boards drawn: To Do holds up to MaxTasks tasks
DrawnTask(n) ==
    Dict(<<Entry("id", Str(generate_id(n))), Entry("title", Str("call")),
           Entry("priority", Str("Mid"))>>)
DrawnBoard(n) ==
    Dict(<<Entry("To Do", List([k \in 1 .. n |-> DrawnTask(k)])),
           Entry("In Progress", List(<<FullTask, OtherTask, UntitledTask>>)),
           Entry("Done", List(<<>>))>>)
DrawnWorkspace(n) ==
    Dict(<<Entry("A", DrawnBoard(n)),
           Entry("_meta", Dict(<<Entry("last_project", Str("A"))>>))>>)

\* main is at the top of its loop (lines 730-738) with a valid selection,
\* in a terminal of some height
DrawInit ==
    /\ ManagerInit
    /\ fs.target = Absent
    /\ \E n \in 0 .. MaxTasks :
          /\ all_projects_data = DrawnWorkspace(n)
          /\ data_file = Document(all_projects_data)
    /\ saved = NoWorkspace
    /\ app_pc = "board"
    /\ exit_status = 0
    /\ current_project_name = "A"
    /\ current_column_idx \in 0 .. Len(DEFAULT_COLUMNS) - 1
    /\ current_task_idx_in_col \in 0 .. Max(0, Len(current_col_tasks) - 1)
    /\ original_col_idx = 0
    /\ original_task_idx = 0
    /\ moving_task = JNull
    /\ project_names = <<>>
    /\ selected_idx = 0
    /\ modal_current = ""
    /\ key_count = 0
    /\ key = ""
    /\ typed = <<>>
    /\ saving = <<>>
    /\ key_limit = MaxKeys
    /\ height \in 1 .. MaxHeight
    /\ screen = <<>>
    /\ NotInitialized

\* line 741: the loop draws the board before it waits for a key
DrawBoard ==
    /\ app_pc = "board"
    /\ screen' = draw_board(all_projects_data, current_project_name,
                            current_column_idx, current_task_idx_in_col, height)
    /\ UNCHANGED <<height, api, key_limit, data_file, all_projects_data, saved,
                   ui, async>>

\* lines 996-998: KEY_RESIZE changes nothing; the loop draws the board again
\* in the terminal's new height
Resize(h) ==
    /\ app_pc = "board"
    /\ screen # <<>>
    /\ h # height
    /\ KeyRead("KEY_RESIZE", <<>>)
    /\ height' = h
    /\ screen' = draw_board(all_projects_data, current_project_name,
                            current_column_idx, current_task_idx_in_col, h)
    /\ UNCHANGED <<api, key_limit, data_file, all_projects_data, saved, app_pc,
                   exit_status, current_project_name, cursor, move, modal,
                   saving, async>>

DrawNext ==
    \/ DrawBoard
    \/ \E h \in 1 .. MaxHeight : Resize(h)

DrawSpec == DrawInit /\ [][DrawNext]_vars

\* the tasks (numbered from 1) a column of the screen shows
Numbers(drawn) == [k \in DOMAIN drawn |-> drawn[k] + 1]
FromTo(a, b) == [k \in 1 .. Max(0, b - a + 1) |-> a + k - 1]

\* C32: a header "(X-Y/N)" stands over exactly the tasks X..Y, a header
\* "(N)" over all N tasks, and the selected task is among the tasks drawn
\* when the terminal leaves at least one row for tasks.
C32_ScrollRangeAccurate ==
    screen # <<>> =>
        /\ \A i \in DOMAIN screen :
              /\ screen[i].header.kind = "range" =>
                    Numbers(screen[i].drawn)
                      = FromTo(screen[i].header.from, screen[i].header.to)
              /\ screen[i].header.kind = "count" =>
                    Numbers(screen[i].drawn) = FromTo(1, screen[i].header.total)
        /\ (height - 5 >= 1 /\ current_col_tasks # <<>>) =>
              InList(screen[current_column_idx + 1].drawn, current_task_idx_in_col)

\* the board of move mode with the moving task taken out of the place it
\* is in and put back where move mode found it
Entered ==
    LET popped == WithColumn(all_projects_data, current_project_name,
                             current_column_idx,
                             Pop(current_col_tasks, current_task_idx_in_col))
    IN WithColumn(popped, current_project_name, original_col_idx,
                  Insert(ColumnTasks(popped, current_project_name,
                                     original_col_idx),
                         original_task_idx, moving_task))
NoSave == saving' = <<>> /\ UNCHANGED <<data_file, saved>>

\* C33: Esc in move mode undoes the move exactly.  On entry the board is
\* Entered and the selection is remembered; every arrow key (wrap-around
\* included) keeps Entered, the remembered selection and the moving task at
\* the selection, and saves nothing; Esc makes the board Entered again,
\* selects the remembered column and index and saves nothing.
C33_MoveCancelExactUndo ==
    [][/\ (app_pc = "board" /\ app_pc' = "move") =>
             /\ all_projects_data' = all_projects_data
             /\ Entered' = all_projects_data
             /\ original_col_idx' = current_column_idx
             /\ original_task_idx' = current_task_idx_in_col
       /\ (app_pc = "move" /\ app_pc' = "move") =>
             /\ Entered' = Entered
             /\ UNCHANGED move
             /\ current_col_tasks'[current_task_idx_in_col' + 1] = moving_task
             /\ NoSave
       /\ (app_pc = "move" /\ key' = "ESC") =>
             /\ app_pc' = "board"
             /\ all_projects_data' = Entered
             /\ current_column_idx' = original_col_idx
             /\ current_task_idx_in_col' = original_task_idx
             /\ NoSave]_vars
\* Esc was pressed in move mode on the first of the two To Do tasks
C33_Cancelled ==
    /\ app_pc = "board" /\ key = "ESC" /\ key_count = 1
    /\ current_column_idx = 0 /\ current_task_idx_in_col = 0
    /\ Len(current_col_tasks) = 2
\* the moving task came back to its column by wrap-around, at the end
C33_WrappedAround ==
    /\ app_pc = "move" /\ key = "RIGHT"
    /\ current_column_idx = original_col_idx
    /\ current_task_idx_in_col # original_task_idx

\* ======================================================================
\* async_save.py: accounting, busy status, termination
\* ======================================================================
\* the threads inside _process_save_request, and the requests that left it
Processing == {t \in Threads : pc[t] \in ProcessPcs}
Finished == Cardinality({i \in DOMAIN log : log[i][1] = "end"})
\* the calls of its completion callback a request has seen
CompletionCalls(t) ==
    SelectSeq(wr[t].told,
              LAMBDA c : c \in {"callback(True)", "callback(False)"})

\* C34: when a request leaves _process_save_request its completion callback
\* (if any) has been called exactly once, with the outcome of the write, and
\* whenever no request is being processed save_counter + failed_saves is the
\* number of requests processed.
C34_ExactlyOnceAccounting ==
    [][/\ \A t \in Threads :
             EndProcess(t) =>
                 CompletionCalls(t) =
                     IF req[t].callback = "none" THEN <<>>
                     ELSE IF wr[t].written THEN <<"callback(True)">>
                     ELSE <<"callback(False)">>
       /\ Processing' = {} => save_counter' + failed_saves' = Finished']_vars

\* lines 162-171: get_status()
get_status ==
    [is_running |-> is_running, save_in_progress |-> save_in_progress,
     queue_size |-> Len(save_queue), last_save_time |-> last_save_time,
     save_counter |-> save_counter, failed_saves |-> failed_saves]
\* lines 173-175: is_busy()
is_busy == save_in_progress \/ save_queue # <<>>

\* an enqueued request has not finished its write attempt: it is in the
\* queue, or the worker or the drain of stop() has taken it from the queue
\* and has not left _save_data_to_file
Unfinished ==
    \/ save_queue # <<>>
    \/ \E t \in Threads :
          /\ wr[t].ctx \in {"worker", "drain"}
          /\ pc[t] \in {"proc"} \cup WritePcs

\* C35: while an enqueued request has not finished its write attempt,
\* is_busy() is true and get_status() shows save_in_progress or a queue
\* that is not empty.
C35_BusyConservative ==
    Unfinished =>
        /\ is_busy
        /\ get_status.save_in_progress \/ get_status.queue_size > 0

\* the thread was never started, has returned from _save_worker, or was
\* ended by an exception
Terminated(t) == pc[t] \in {"none", "exited", "crashed"}

\* C36: under fair scheduling, once is_running is false every worker thread
\* terminates unless is_running is set again; a worker that finds is_running
\* false at its loop test leaves the loop, after stop() it takes at most one
\* more request from the queue, and only start() and queue_save() set
\* is_running again.
C36_WorkerTerminates ==
    /\ (~is_running) ~> (is_running \/ \A t \in Workers : Terminated(t))
    /\ [][/\ \A t \in Workers :
                (WorkerLoop(t) /\ ~is_running) => pc'[t] = "exited"
          /\ (~is_running /\ is_running') =>
                (Start \/ \E k \in RequestKinds : QueueSave(k[1], k[2]))]_vars
\* stop() has returned, the worker finished a request and left its loop
C36_StoppedAndExited ==
    /\ pc[Caller] = "stop_ret"
    /\ ~is_running
    /\ pc[1] = "exited"
    /\ \A t \in Workers : Terminated(t)
    /\ Finished >= 1

\* C37: while main is in its loop, outside the modal, the current project
\* is a key of the workspace other than "_meta" and _meta.last_project names
\* it; the modal never hands main a name that is no project.
C37_CurrentProjectExists ==
    app_pc \in {"board", "move"} =>
        /\ current_project_name # "_meta"
        /\ Has(all_projects_data, current_project_name)
        /\ InList(ProjectNames(all_projects_data), current_project_name)
        /\ load_last_project_from_data(all_projects_data)
             = Str(current_project_name)

\* the selection names a column of the board and a task of that column, or
\* index 0 of an empty column
SelectionInRange ==
    /\ current_column_idx \in 0 .. Len(DEFAULT_COLUMNS) - 1
    /\ IF current_col_tasks = <<>> THEN current_task_idx_in_col = 0
       ELSE current_task_idx_in_col \in 0 .. Len(current_col_tasks) - 1

\* C38: whenever main draws the board (in its loop or in move mode) the
\* selection is in range, and in move mode it is the moving task; Left and
\* Right go round the three columns, Up and Down round the tasks of the
\* column.
C38_SelectionStaysInRange ==
    [][/\ app_pc' \in {"board", "move"} => SelectionInRange'
       /\ app_pc' = "move" => current_col_tasks' # <<>>
       /\ (app_pc = "board" /\ key' = "LEFT") =>
             current_column_idx' =
                 IF current_column_idx = 0 THEN Len(DEFAULT_COLUMNS) - 1
                 ELSE current_column_idx - 1
       /\ (app_pc = "board" /\ key' = "RIGHT") =>
             current_column_idx' =
                 IF current_column_idx = Len(DEFAULT_COLUMNS) - 1 THEN 0
                 ELSE current_column_idx + 1
       /\ (app_pc = "board" /\ key' = "UP" /\ current_col_tasks # <<>>) =>
             current_task_idx_in_col' =
                 IF current_task_idx_in_col = 0 THEN Len(current_col_tasks) - 1
                 ELSE current_task_idx_in_col - 1
       /\ (app_pc = "board" /\ key' = "DOWN" /\ current_col_tasks # <<>>) =>
             current_task_idx_in_col' =
                 IF current_task_idx_in_col = Len(current_col_tasks) - 1 THEN 0
                 ELSE current_task_idx_in_col + 1]_vars
\* Up at the first of two tasks selected the second
C38_WrappedUp ==
    /\ app_pc = "board" /\ key = "UP" /\ key_count = 1
    /\ Len(current_col_tasks) = 2
    /\ current_task_idx_in_col = 1

\* ======================================================================
\* async_save.py: the module-level functions (lines 178-233)
\* ======================================================================
\* The global _save_manager names one of the AsyncSaveManager objects in
\* `managers`, each with its own fields and worker thread.  A request is
\* processed in one step and callbacks are stored, not called; each
\* module-level call is one step of the single calling thread.  The
\* variables of the manager modelled above are not used here.  Where a step
\* writes nothing its outcome `ok` is immaterial and is fixed to TRUE.
MaxManagers == 2
FileNames == {"kanby_data.json", "other.json"}
Workspaces == {"w1", "w2"}
StoredCallbacks == {"none", "cb"}

\* AsyncSaveManager.__init__ (lines 18-32): start() runs the worker thread
NewManager(file) ==
    [data_file |-> file, is_running |-> TRUE, worker |-> "loop",
     save_queue |-> <<>>, save_in_progress |-> FALSE, save_counter |-> 0,
     failed_saves |-> 0, success_callback |-> "none",
     error_callback |-> "none"]

\* _save_data_to_file of the requests `queue`, all with the outcome ok
DiskAfter(file, queue, ok) ==
    IF ok /\ queue # <<>>
    THEN [disk EXCEPT ![file] = queue[Len(queue)]]
    ELSE disk
Processed(m, queue, ok) ==
    [m EXCEPT !.save_counter = IF ok THEN @ + Len(queue) ELSE @,
              !.failed_saves = IF ok THEN @ ELSE @ + Len(queue)]

\* queue_save (lines 54-60): start() if the manager is not running, put
ManagerQueueSave(m, data) ==
    [m EXCEPT !.is_running = TRUE,
              !.worker = IF m.is_running THEN @ ELSE "loop",
              !.save_queue = Append(@, data)]
\* stop (lines 41-47): the drain of _process_remaining_saves if the worker
\* thread is alive, then the join
ManagerStop(m, ok) ==
    IF m.worker # "exited"
    THEN [Processed(m, m.save_queue, ok)
            EXCEPT !.is_running = FALSE, !.save_queue = <<>>]
    ELSE [m EXCEPT !.is_running = FALSE]
\* get_status (lines 162-171) and is_busy (lines 173-175)
ManagerStatus(m) ==
    [is_running |-> m.is_running, save_in_progress |-> m.save_in_progress,
     queue_size |-> Len(m.save_queue), save_counter |-> m.save_counter,
     failed_saves |-> m.failed_saves]
ManagerIsBusy(m) == m.save_in_progress \/ m.save_queue # <<>>

\* a module-level call returns
Returned(fn, value) ==
    /\ calls < MaxCalls
    /\ calls' = calls + 1
    /\ result' = [fn |-> fn, value |-> value]
    /\ UNCHANGED <<data_file, all_projects_data, saved, ui, display, key_limit,
                   mgr, save_queue, ws, pc, req, wr, enqueued, last_enqueued,
                   log, fs>>

\* an init_async_save that makes a new manager whenever it is called
init_async_save_always(file) ==
    /\ Len(managers) < MaxManagers
    /\ managers' = Append(managers, NewManager(file))
    /\ _save_manager' = Len(managers) + 1
    /\ Returned("init_async_save", Len(managers) + 1)
    /\ UNCHANGED disk

\* lines 181-186
init_async_save(file) ==
    /\ IF _save_manager = None
       THEN /\ Len(managers) < MaxManagers
            /\ managers' = Append(managers, NewManager(file))
            /\ _save_manager' = Len(managers) + 1
            /\ Returned("init_async_save", Len(managers) + 1)
       ELSE /\ UNCHANGED <<managers, _save_manager>>
            /\ Returned("init_async_save", _save_manager)
    /\ UNCHANGED disk

\* lines 194-197
async_save(data) ==
    /\ IF _save_manager # None
       THEN managers' = [managers EXCEPT ![_save_manager] =
                             ManagerQueueSave(@, data)]
       ELSE UNCHANGED managers
    /\ Returned("async_save", None)
    /\ UNCHANGED <<_save_manager, disk>>

\* lines 200-204, with save_now (lines 62-69), whose write succeeds or not
sync_save(data, ok) ==
    /\ IF _save_manager # None
       THEN /\ disk' = DiskAfter(managers[_save_manager].data_file,
                                 <<data>>, ok)
            /\ Returned("sync_save", ok)
       ELSE /\ ok
            /\ UNCHANGED disk
            /\ Returned("sync_save", FALSE)
    /\ UNCHANGED <<_save_manager, managers>>

\* lines 207-212
shutdown_save_manager(ok) ==
    /\ IF _save_manager # None
       THEN LET m == managers[_save_manager]
            IN /\ managers' = [managers EXCEPT ![_save_manager] =
                                   ManagerStop(m, ok)]
               /\ disk' = IF m.worker # "exited"
                          THEN DiskAfter(m.data_file, m.save_queue, ok)
                          ELSE disk
               /\ _save_manager' = None
       ELSE /\ ok
            /\ UNCHANGED <<managers, disk, _save_manager>>
    /\ Returned("shutdown_save_manager", None)

\* lines 216-219, with set_callbacks (lines 49-52)
set_save_callbacks(on_success, on_error) ==
    /\ IF _save_manager # None
       THEN managers' = [managers EXCEPT
                            ![_save_manager].success_callback = on_success,
                            ![_save_manager].error_callback = on_error]
       ELSE UNCHANGED managers
    /\ Returned("set_save_callbacks", None)
    /\ UNCHANGED <<_save_manager, disk>>

\* lines 222-226
get_save_status ==
    /\ Returned("get_save_status",
                IF _save_manager # None
                THEN ManagerStatus(managers[_save_manager])
                ELSE [error |-> "Save manager not initialized"])
    /\ UNCHANGED <<_save_manager, managers, disk>>

\* lines 229-233
is_save_busy ==
    /\ Returned("is_save_busy",
                IF _save_manager # None
                THEN ManagerIsBusy(managers[_save_manager])
                ELSE FALSE)
    /\ UNCHANGED <<_save_manager, managers, disk>>

\* _save_worker (lines 71-83) of the manager i: the loop test, then get and
\* _process_save_request
ManagerWorker(i, ok) ==
    LET m == managers[i]
    IN /\ \/ /\ m.worker = "loop"
             /\ ok
             /\ managers' = [managers EXCEPT ![i].worker =
                                IF m.is_running THEN "get" ELSE "exited"]
             /\ UNCHANGED disk
          \/ /\ m.worker = "get"
             /\ IF m.save_queue # <<>>
                THEN /\ managers' =
                          [managers EXCEPT ![i] =
                              [Processed(m, <<Head(m.save_queue)>>, ok)
                                 EXCEPT !.save_queue = Tail(@),
                                        !.worker = "loop"]]
                     /\ disk' = DiskAfter(m.data_file,
                                          <<Head(m.save_queue)>>, ok)
                ELSE /\ ok
                     /\ managers' = [managers EXCEPT ![i].worker = "loop"]
                     /\ UNCHANGED disk
       /\ UNCHANGED <<_save_manager, result, data_file, all_projects_data,
                      saved, ui, display, key_limit, async>>

\* the module has been imported: no manager, no file written
ModuleInit ==
    /\ ManagerInit
    /\ fs.target = Absent
    /\ data_file = NoFile
    /\ all_projects_data = NoWorkspace
    /\ saved = NoWorkspace
    /\ NotDrawn
    /\ app_pc = "start"
    /\ exit_status = 0
    /\ current_project_name = ""
    /\ current_column_idx = 0
    /\ current_task_idx_in_col = 0
    /\ original_col_idx = 0
    /\ original_task_idx = 0
    /\ moving_task = JNull
    /\ project_names = <<>>
    /\ selected_idx = 0
    /\ modal_current = ""
    /\ key_count = 0
    /\ key = ""
    /\ typed = <<>>
    /\ saving = <<>>
    /\ key_limit = MaxKeys
    /\ _save_manager = None
    /\ managers = <<>>
    /\ disk = [f \in FileNames |-> "absent"]
    /\ result = <<>>

ModuleNext ==
    \/ \E file \in FileNames : init_async_save(file)
    \/ \E data \in Workspaces : async_save(data)
    \/ \E data \in Workspaces, ok \in BOOLEAN : sync_save(data, ok)
    \/ \E ok \in BOOLEAN : shutdown_save_manager(ok)
    \/ \E on_success \in StoredCallbacks, on_error \in StoredCallbacks :
          set_save_callbacks(on_success, on_error)
    \/ get_save_status
    \/ is_save_busy
    \/ \E i \in DOMAIN managers, ok \in BOOLEAN : ManagerWorker(i, ok)

ModuleSpec == ModuleInit /\ [][ModuleNext]_vars

\* C39: init_async_save makes a manager, with a running worker, only when
\* there is none, and otherwise returns the existing one and leaves it as
\* it is; while there is no manager async_save, sync_save and is_save_busy
\* change nothing, sync_save returns False and is_save_busy returns False;
\* shutdown_save_manager stops the manager and clears the global.
C39_ManagerLifecycle ==
    [][(calls' = calls + 1) =>
          /\ result'.fn = "init_async_save" =>
                IF _save_manager # None
                THEN /\ UNCHANGED <<_save_manager, managers, disk>>
                     /\ result'.value = _save_manager
                ELSE /\ _save_manager' = Len(managers) + 1
                     /\ result'.value = _save_manager'
                     /\ SubSeq(managers', 1, Len(managers)) = managers
                     /\ managers'[_save_manager'].is_running
                     /\ managers'[_save_manager'].worker # "exited"
                     /\ managers'[_save_manager'].save_queue = <<>>
          /\ (_save_manager = None
                /\ result'.fn \in {"async_save", "sync_save", "is_save_busy"}) =>
                /\ UNCHANGED <<_save_manager, managers, disk>>
                /\ result'.fn = "async_save" => result'.value = None
                /\ result'.fn = "sync_save" => result'.value = FALSE
                /\ result'.fn = "is_save_busy" => result'.value = FALSE
          /\ (_save_manager # None /\ result'.fn = "shutdown_save_manager") =>
                /\ _save_manager' = None
                /\ ~managers'[_save_manager].is_running
                /\ Len(managers') = Len(managers)]_vars
\* after a shutdown, init_async_save made a second manager for the other
\* file, with a running worker
C39_FreshManager ==
    /\ result # <<>>
    /\ result.fn = "init_async_save"
    /\ _save_manager = 2
    /\ managers[2].is_running
    /\ managers[2].worker = "loop"
    /\ ~managers[1].is_running
    /\ managers[2].data_file # managers[1].data_file

====
